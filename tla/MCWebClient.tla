------------------------------ MODULE MCWebClient ------------------------------
(* A user has one page of the web client open: a list page, the stage or Talk  *)
(* Together.  The pages share no state, so only the open one's moves.          *)
EXTENDS Screens, StageSession, TurnCaptions

VARIABLE page

clientVars == <<page, screenVars, stageVars, vars>>

SomeScreen == CHOOSE s \in AllScreens : TRUE

ClientInit ==
    /\ page \in {"list", "stage", "talk"}
    /\ ScreenInit /\ StageInit /\ Init
    /\ page # "list" => screen = SomeScreen

ClientNext ==
    \/ page = "list" /\ ScreenNext /\ UNCHANGED <<page, stageVars, vars>>
    \/ page = "stage" /\ StageNext /\ UNCHANGED <<page, screenVars, vars>>
    \/ page = "talk" /\ Next /\ UNCHANGED <<page, screenVars, stageVars>>

ClientSpec == ClientInit /\ [][ClientNext]_clientVars
=============================================================================
