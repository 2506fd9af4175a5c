------------------------------ MODULE MCPageAudio ------------------------------
(* The two ways a page of the web client plays translated audio: from the relay *)
(* connections of Talk Together and from the packets of a broadcast.  A page    *)
(* does one of them, and no fair action of the other is enabled initially.      *)
EXTENDS EchoGate, AudioBroadcast

VARIABLE audioFrom

pageVars == <<audioFrom, vars, broadcastVars>>

PageInit ==
    /\ audioFrom \in {"relay", "packets"}
    /\ Init /\ BroadcastInit

PageNext ==
    \/ audioFrom = "relay" /\ Next /\ UNCHANGED <<audioFrom, broadcastVars>>
    \/ audioFrom = "packets" /\ BroadcastNext /\ UNCHANGED <<audioFrom, vars>>

PageSpec ==
    /\ PageInit /\ [][PageNext]_pageVars
    /\ WF_vars(Tick) /\ \A d \in Dirs : WF_vars(Timers(d))
    /\ WF_broadcastVars(Receive)
    /\ \A m \in Msgs : WF_broadcastVars(Send(m)) /\ WF_broadcastVars(Decode(m))
================================================================================
