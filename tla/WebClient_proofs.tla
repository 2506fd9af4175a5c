--------------------------- MODULE WebClient_proofs ---------------------------
(***************************************************************************)
(* The pages of the web client, one after the other; they share no state.  *)
(*                                                                         *)
(* The list pages, whatever the table of the screen: an unanswered write   *)
(* holds its flag until it is given away, a list shown is of what is       *)
(* selected or late, and a load that would show it without a write it      *)
(* lacks is overtaken by one that has it.                                  *)
(*                                                                         *)
(* The stage, for any number of attempts to connect and any time: the      *)
(* flushes cut the session into disjoint stretches, all that is sent or    *)
(* recorded lies before the last flush, which only moves forward; and the  *)
(* page shows the one room that is up.                                     *)
(*                                                                         *)
(* The captions of Talk Together, for any number of turns, messages and    *)
(* lost connections: what is on the line is in the order of its turns, and *)
(* later than what is shown.                                               *)
(***************************************************************************)
EXTENDS Screens, StageSession, TurnCaptions, SequenceTheorems, FiniteSetTheorems, TLAPS

-----------------------------------------------------------------------------
(* The list pages: the flags. *)

Write == [n : Nat, act : Controls, row : Rows \cup {Whole}, key : Keys, of : Keys \cup {0},
          had : SUBSET Nat, late : BOOLEAN, done : BOOLEAN, dropped : BOOLEAN, freed : BOOLEAN]
Flags == [Controls -> Rows \cup {Whole, Free}]

\* A write that still has its flag: the flag holds its row.
HeldBy(W, f) ==
    /\ W \subseteq Write /\ f \in Flags
    /\ \A w \in W : At(w.act).guard # "none" /\ ~w.freed => f[w.act] = w.row

\* Only a dialog or a row gives a flag away while its component stays.
GivenAway(W) == \A w \in W : w.freed /\ ~w.dropped => At(w.act).guard \in {"dialog", "row"}

\* Of two writes of a request, one has lost the flag.
OneHolds(W) ==
    \A v, w \in W : v # w /\ v.act = w.act /\ At(v.act).guard # "none" => v.freed \/ w.freed

Numbered(W) == \A v, w \in W : v.n = w.n => v = w

Held(W, f) == HeldBy(W, f) /\ GivenAway(W) /\ OneHolds(W) /\ Numbered(W)

LEMMA ScreenStays ==
    ASSUME screen' = screen, NEW W, NEW f
    PROVE  Held(W, f)' <=> Held(W, f)
BY DEF Held, HeldBy, GivenAway, OneHolds, Numbered, Write, Flags, Controls, At

LEMMA GoneHeld ==
    ASSUME NEW W, NEW f, Held(W, f), NEW g \in Flags
    PROVE  Held(Gone(W), g)
<1>1. \A w \in W : /\ [w EXCEPT !.dropped = TRUE, !.freed = TRUE] \in Write
                   /\ [w EXCEPT !.dropped = TRUE, !.freed = TRUE].n = w.n
                   /\ [w EXCEPT !.dropped = TRUE, !.freed = TRUE].dropped
                   /\ [w EXCEPT !.dropped = TRUE, !.freed = TRUE].freed
  BY DEF Held, HeldBy, Write
<1>2. \A x \in Gone(W) : x \in Write /\ x.dropped /\ x.freed
  BY <1>1 DEF Gone
<1>3. Numbered(Gone(W))
  <2> DEFINE F(w) == [w EXCEPT !.dropped = TRUE, !.freed = TRUE]
  <2>1. \A x \in Gone(W) : \E w \in W : x = F(w)
    BY DEF Gone
  <2>2. \A w \in W : F(w).n = w.n
    BY <1>1
  <2> HIDE DEF F
  <2> QED  BY <2>1, <2>2 DEF Held, Numbered
<1> QED  BY <1>2, <1>3 DEF Held, HeldBy, GivenAway, OneHolds

\* The flags of some requests are taken away; the other writes keep theirs.
TakenFrom(S, W) == {[w EXCEPT !.freed = (@ \/ w.act \in S)] : w \in W}

LEMMA FreeingHeld ==
    ASSUME NEW W, NEW f, Held(W, f), NEW g \in Flags, NEW S,
           \A a \in S : At(a).guard \in {"dialog", "row"},
           \A a \in Controls \ S : g[a] = f[a]
    PROVE  Held(TakenFrom(S, W), g)
<1> DEFINE F(w) == [w EXCEPT !.freed = (@ \/ w.act \in S)]
<1>1. \A w \in W : /\ F(w) \in Write /\ F(w).n = w.n /\ F(w).act = w.act /\ F(w).row = w.row /\ F(w).dropped = w.dropped
                   /\ F(w).freed <=> (w.freed \/ w.act \in S)
  BY DEF Held, HeldBy, Write
<1> DEFINE V == {F(w) : w \in W}
<1>2. \A x \in V : \E w \in W : x = F(w)
  OBVIOUS
<1> HIDE DEF F, V
<1>3. HeldBy(V, g)
  BY <1>1, <1>2 DEF Held, HeldBy, Write
<1>4. GivenAway(V)
  BY <1>1, <1>2 DEF Held, GivenAway
<1>5. OneHolds(V)
  BY <1>1, <1>2 DEF Held, OneHolds
<1>6. Numbered(V)
  BY <1>1, <1>2 DEF Held, Numbered
<1> QED  BY <1>3, <1>4, <1>5, <1>6 DEF Held, V, F, TakenFrom

LEMMA FewerHeld ==
    ASSUME NEW W, NEW f, Held(W, f), NEW V, V \subseteq W
    PROVE  Held(V, f)
BY DEF Held, HeldBy, GivenAway, OneHolds, Numbered

LEMMA FreedHeld ==
    ASSUME NEW W, NEW f, Held(W, f), NEW a \in Controls, NEW g \in Flags,
           \A b \in Controls \ {a} : g[b] = f[b],
           \/ At(a).guard \in {"none", "row"}
           \/ g = f
           \/ \A w \in W : w.act = a => w.freed
    PROVE  Held(Freed(a, W), g)
<1>1. CASE At(a).guard = "row"
  <2>1. PICK S : S = {a}
    OBVIOUS
  <2>2. Held(TakenFrom(S, W), g)
    BY <1>1, <2>1, FreeingHeld
  <2>3. TakenFrom(S, W) = Freed(a, W)
    BY <1>1, <2>1 DEF TakenFrom, Freed
  <2> QED  BY <2>2, <2>3
<1>2. CASE At(a).guard # "row"
  <2>1. \A w \in W : At(w.act).guard # "none" /\ ~w.freed => g[w.act] = w.row
    BY <1>2 DEF Held, HeldBy, Write
  <2> QED  BY <1>2, <2>1 DEF Held, HeldBy, Freed
<1> QED  BY <1>1, <1>2

-----------------------------------------------------------------------------
\* The steps that touch writes and flags.

ScreenTypes ==
    /\ key \in Keys /\ late \in BOOLEAN /\ sent \in Nat
    /\ rows \in [of : Keys \cup {0}, seen : SUBSET Nat]
    /\ loads \subseteq [n : Nat, key : Keys, loud : BOOLEAN, read : SUBSET Nat]
    /\ saved \subseteq [n : Nat, key : Keys]

WritesInv == ScreenTypes /\ Held(writes, flag) /\ \A w \in writes : w.n <= sent

LEMMA AllFree == [a \in Controls |-> Free] \in Flags
BY DEF Flags

LEMMA AnswerHeld ==
    ASSUME WritesInv, NEW w \in writes, ~w.dropped
    PROVE  Held(Others(w), Unflag(w))
<1>1. PICK V : V = writes \ {w}
  OBVIOUS
<1>2. Held(V, flag)
  BY <1>1, FewerHeld DEF WritesInv
<1>3. PICK g : g = Unflag(w)
  OBVIOUS
<1>4. w.act \in Controls /\ flag \in Flags
  BY DEF WritesInv, Held, HeldBy, Write
<1>5. g \in Flags /\ \A b \in Controls \ {w.act} : g[b] = flag[b]
  BY <1>3, <1>4 DEF Unflag, Flags
<1>6. \/ At(w.act).guard \in {"none", "row"}
      \/ g = flag
      \/ \A v \in V : v.act = w.act => v.freed
  BY <1>1, <1>3 DEF WritesInv, Held, GivenAway, OneHolds, Unflag
<1>7. Held(Freed(w.act, V), g)
  BY <1>2, <1>4, <1>5, <1>6, FreedHeld
<1> QED  BY <1>1, <1>3, <1>7 DEF Others

LEMMA ClosedHeld ==
    ASSUME NEW W, NEW f, Held(W, f), Close(W, f), screen' = screen
    PROVE  Held(writes', flag')
<1>1. PICK S : S = {a \in Controls : Holds(a)}
  OBVIOUS
<1>2. f \in Flags /\ \A w \in W : w.act \in Controls
  BY DEF Held, HeldBy, Write
<1>3. flag' = [a \in Controls |-> IF a \in S THEN Free ELSE f[a]]
  BY <1>1 DEF Close
<1>4. writes' = TakenFrom(S, W)
  BY <1>1, <1>2 DEF Close, TakenFrom
<1>5. flag' \in Flags /\ \A a \in Controls \ S : flag'[a] = f[a]
  BY <1>2, <1>3 DEF Flags
<1>6. \A a \in S : At(a).guard \in {"dialog", "row"}
  BY <1>1 DEF Holds
<1> QED  BY <1>4, <1>5, <1>6, FreeingHeld

LEMMA ClickHeld ==
    ASSUME WritesInv, NEW a \in Controls, NEW r \in Rows \cup {Whole}, Click(a, r)
    PROVE  Held(writes', flag')
<1>1. PICK g : g = IF At(a).guard = "none" THEN flag ELSE [flag EXCEPT ![a] = r]
  OBVIOUS
<1>2. flag \in Flags /\ Held(writes, flag)
  BY DEF WritesInv, Held, HeldBy
<1>3. g \in Flags /\ (\A b \in Controls \ {a} : g[b] = flag[b]) /\ (At(a).guard # "none" => g[a] = r)
  BY <1>1, <1>2 DEF Flags
<1>4. At(a).guard \notin {"none", "row"} => \A w \in writes : w.act = a => w.freed
  <2> SUFFICES ASSUME At(a).guard \notin {"none", "row"}, NEW w \in writes, w.act = a, ~w.freed
               PROVE  FALSE
    BY DEF WritesInv, Held, HeldBy, Write
  <2>1. flag[a] = w.row /\ w.row \in Rows \cup {Whole}
    BY <1>2 DEF Held, HeldBy, Write
  <2>2. flag[a] = Free
    BY DEF Click, Enabled
  <2> QED  BY <2>1, <2>2, ScreenAssumption DEF Free, Whole
<1>5. Held(Freed(a, writes), g)
  BY <1>2, <1>3, <1>4, FreedHeld
<1>6. PICK V : V = Freed(a, writes)
  OBVIOUS
<1>7. PICK s : s = Sent(a, r)
  OBVIOUS
<1>8. s \in Write /\ s.n = sent + 1 /\ s.act = a /\ s.row = r /\ ~s.freed /\ ~s.dropped
  BY <1>7 DEF Sent, Write, WritesInv, ScreenTypes
<1>9. writes' = V \cup {s} /\ flag' = g
  BY <1>1, <1>6, <1>7 DEF Click
<1>10. Held(V, g)
  BY <1>5, <1>6
<1>11. At(a).guard # "none" => \A v \in V : v.act = a => v.freed
  <2>1. CASE At(a).guard = "row"
    <3>1. \A w \in writes : [w EXCEPT !.freed = (@ \/ w.act = a)].act = w.act
                            /\ (w.act = a => [w EXCEPT !.freed = (@ \/ w.act = a)].freed)
      BY <1>2 DEF Held, HeldBy, Write
    <3>2. \A v \in V : \E w \in writes : v = [w EXCEPT !.freed = (@ \/ w.act = a)]
      BY <1>6, <2>1 DEF Freed
    <3> SUFFICES \A v \in V : v.act = a => v.freed
      OBVIOUS
    <3> TAKE v \in V
    <3>3. PICK w \in writes : v = [w EXCEPT !.freed = (@ \/ w.act = a)]
      BY <3>2
    <3> QED  BY <3>1, <3>3
  <2>2. CASE At(a).guard \notin {"none", "row"}
    BY <1>4, <1>6, <2>2 DEF Freed
  <2> QED  BY <2>1, <2>2
<1>12. HeldBy(V \cup {s}, g)
  BY <1>3, <1>8, <1>10, <1>11 DEF Held, HeldBy
<1>13. GivenAway(V \cup {s}) /\ OneHolds(V \cup {s})
  BY <1>8, <1>10, <1>11 DEF Held, GivenAway, OneHolds
<1>14. Numbered(V \cup {s})
  <2>1. \A w \in writes : [w EXCEPT !.freed = (@ \/ w.act = a)].n = w.n
    BY <1>2 DEF Held, HeldBy, Write
  <2>2. \A v \in V : \E w \in writes : v.n = w.n
    BY <1>6, <2>1 DEF Freed
  <2>3. \A v \in V : v.n # sent + 1
    BY <2>2 DEF WritesInv, ScreenTypes, Held, HeldBy, Write
  <2> QED  BY <1>8, <1>10, <2>3 DEF Held, Numbered
<1> QED  BY <1>9, <1>12, <1>13, <1>14 DEF Held

LEMMA DoneHeld ==
    ASSUME NEW W, NEW f, Held(W, f), NEW w \in W
    PROVE  Held((W \ {w}) \cup {[w EXCEPT !.done = TRUE]}, f)
<1>1. PICK d : d = [w EXCEPT !.done = TRUE]
  OBVIOUS
<1>2. d \in Write /\ d.n = w.n /\ d.act = w.act /\ d.row = w.row /\ d.freed = w.freed /\ d.dropped = w.dropped
  BY <1>1 DEF Held, HeldBy, Write
<1>3. HeldBy((W \ {w}) \cup {d}, f) /\ GivenAway((W \ {w}) \cup {d}) /\ OneHolds((W \ {w}) \cup {d})
  BY <1>2 DEF Held, HeldBy, GivenAway, OneHolds
<1>4. Numbered((W \ {w}) \cup {d})
  BY <1>2 DEF Held, Numbered
<1> QED  BY <1>1, <1>3, <1>4 DEF Held

\* Each step keeps the types.
LEMMA FetchTypes ==
    ASSUME ScreenTypes, NEW k \in Keys, NEW loud \in BOOLEAN, Fetch(k, loud)
    PROVE  sent' \in Nat /\ loads' \subseteq [n : Nat, key : Keys, loud : BOOLEAN, read : SUBSET Nat]
<1>1. Load(sent + 1, k, loud) \in [n : Nat, key : Keys, loud : BOOLEAN, read : SUBSET Nat]
  BY DEF Load, Unread, ScreenTypes
<1> QED  BY <1>1 DEF Fetch, ScreenTypes

LEMMA RefreshTypes ==
    ASSUME ScreenTypes, NEW w \in Write, Refresh(w)
    PROVE  /\ sent' \in Nat /\ loads' \subseteq [n : Nat, key : Keys, loud : BOOLEAN, read : SUBSET Nat]
           /\ rows' \in [of : Keys \cup {0}, seen : SUBSET Nat]
<1>0. w.key \in Keys /\ w.n \in Nat /\ w.had \in SUBSET Nat
  BY DEF Write
<1>1. CASE At(w.act).after \in {"reload", "refresh"}
  BY <1>0, <1>1, FetchTypes DEF Refresh, ScreenTypes
<1>2. CASE At(w.act).after = "patch"
  BY <1>0, <1>2 DEF Refresh, ScreenTypes
<1>3. CASE At(w.act).after = "overwrite"
  BY <1>0, <1>3 DEF Refresh, ScreenTypes
<1>4. CASE At(w.act).after \notin {"reload", "refresh", "patch", "overwrite"}
  BY <1>4 DEF Refresh, ScreenTypes
<1> QED  BY <1>1, <1>2, <1>3, <1>4

LEMMA ScreenTypesStep ==
    ASSUME WritesInv, [ScreenNext]_screenVars
    PROVE  ScreenTypes'
<1> DEFINE LoadType == [n : Nat, key : Keys, loud : BOOLEAN, read : SUBSET Nat]
<1>0. /\ ScreenTypes /\ writes \subseteq Write /\ NoRows \in [of : Keys \cup {0}, seen : SUBSET Nat]
      /\ TRUE \in BOOLEAN /\ (screen.again = "loud") \in BOOLEAN
  BY DEF WritesInv, Held, HeldBy, NoRows
<1>1. ASSUME NEW k \in Keys, Select(k) \/ SelectAnew(k)
      PROVE  ScreenTypes'
  <2>1. CASE Select(k)
    BY <1>0, <2>1, FetchTypes DEF Select, ScreenTypes
  <2>2. CASE SelectAnew(k)
    <3>1. Load(sent + 1, k, TRUE) \in LoadType
      BY <1>0 DEF Load, Unread, ScreenTypes
    <3>2. /\ key' = k /\ late' = FALSE /\ sent' = sent + 1 /\ rows' = NoRows /\ UNCHANGED saved
          /\ loads' = {Load(sent + 1, k, TRUE)}
      BY <2>2 DEF SelectAnew
    <3>3. loads' \subseteq LoadType /\ late' \in BOOLEAN
      BY <3>1, <3>2
    <3>4. key' \in Keys /\ sent' \in Nat /\ rows' \in [of : Keys \cup {0}, seen : SUBSET Nat]
      BY <1>0, <3>2 DEF ScreenTypes
    <3>5. saved' \subseteq [n : Nat, key : Keys]
      BY <1>0, <3>2 DEF ScreenTypes
    <3> QED  BY <3>3, <3>4, <3>5 DEF ScreenTypes
  <2> QED  BY <1>1, <2>1, <2>2
<1>2. CASE LoadAgain \/ Return
  <2>1. sent' \in Nat /\ loads' \subseteq LoadType
    BY <1>0, <1>2, FetchTypes DEF LoadAgain, Return, ScreenTypes
  <2> QED  BY <1>0, <1>2, <2>1 DEF LoadAgain, Return, ScreenTypes
<1>3. CASE Leave \/ Dismiss
  BY <1>0, <1>3 DEF Leave, Unmount, Dismiss, ScreenTypes
<1>4. ASSUME NEW l \in loads, ServerReads(l) \/ LoadAnswers(l) \/ LoadFails(l)
      PROVE  ScreenTypes'
  <2>1. l \in LoadType
    BY <1>0 DEF ScreenTypes
  <2>2. CASE ServerReads(l)
    <3>1. Done(l.key) \subseteq Nat
      BY <1>0 DEF Done, ScreenTypes
    <3>2. [l EXCEPT !.read = Done(l.key)] \in LoadType
      BY <2>1, <3>1
    <3> QED  BY <1>0, <2>2, <3>2 DEF ServerReads, ScreenTypes
  <2>3. CASE LoadAnswers(l) \/ LoadFails(l)
    <3>1. [of |-> l.key, seen |-> l.read] \in [of : Keys \cup {0}, seen : SUBSET Nat]
      BY <2>1
    <3>2. rows' \in {rows, NoRows, [of |-> l.key, seen |-> l.read]} /\ late' \in BOOLEAN
      BY <2>3 DEF LoadAnswers, LoadFails
    <3>3. loads' \subseteq loads /\ UNCHANGED <<key, saved, sent>>
      BY <2>3 DEF LoadAnswers, LoadFails
    <3> QED  BY <1>0, <3>1, <3>2, <3>3 DEF ScreenTypes
  <2> QED  BY <1>4, <2>2, <2>3
<1>5. ASSUME NEW a \in Controls, OpenDialog(a) \/ \E r \in Rows \cup {Whole} : Click(a, r)
      PROVE  ScreenTypes'
  BY <1>0, <1>5 DEF OpenDialog, Click, ScreenTypes
<1>6. ASSUME NEW w \in writes, ServerWrites(w) \/ Answer(w)
      PROVE  ScreenTypes'
  <2>1. w \in Write /\ w.n \in Nat /\ w.key \in Keys
    BY <1>0 DEF Write
  <2>2. CASE ServerWrites(w)
    BY <1>0, <2>1, <2>2 DEF ServerWrites, ScreenTypes
  <2>3. CASE WriteAnswers(w)
    BY <1>0, <2>1, <2>3, RefreshTypes DEF WriteAnswers, ScreenTypes
  <2>4. CASE WriteLeads(w) \/ WriteFails(w) \/ AnswerDropped(w)
    BY <1>0, <2>4 DEF WriteLeads, WriteFails, AnswerDropped, ScreenTypes
  <2> QED  BY <1>6, <2>2, <2>3, <2>4 DEF Answer
<1>7. CASE UNCHANGED screenVars
  BY <1>0, <1>7 DEF screenVars, ScreenTypes
<1> QED  BY <1>1, <1>2, <1>3, <1>4, <1>5, <1>6, <1>7 DEF ScreenNext

LEMMA HeldStep ==
    ASSUME WritesInv, [ScreenNext]_screenVars
    PROVE  screen' = screen /\ Held(writes', flag')
<1>0. Held(writes, flag) /\ [a \in Controls |-> Free] \in Flags
  BY AllFree DEF WritesInv
<1>1. ASSUME NEW k \in Keys, Select(k) \/ SelectAnew(k)
      PROVE  screen' = screen /\ Held(writes', flag')
  BY <1>0, <1>1, GoneHeld DEF Select, SelectAnew
<1>2. CASE LoadAgain \/ Return \/ Leave
  BY <1>0, <1>2, GoneHeld DEF LoadAgain, Return, Leave, Unmount
<1>3. CASE Dismiss
  BY <1>0, <1>3, ClosedHeld DEF Dismiss
<1>4. ASSUME NEW l \in loads, ServerReads(l) \/ LoadAnswers(l) \/ LoadFails(l)
      PROVE  screen' = screen /\ Held(writes', flag')
  BY <1>0, <1>4 DEF ServerReads, LoadAnswers, LoadFails
<1>5. ASSUME NEW a \in Controls, OpenDialog(a) \/ \E r \in Rows \cup {Whole} : Click(a, r)
      PROVE  screen' = screen /\ Held(writes', flag')
  <2>1. CASE OpenDialog(a)
    BY <1>0, <2>1 DEF OpenDialog
  <2>2. ASSUME NEW r \in Rows \cup {Whole}, Click(a, r)
        PROVE  screen' = screen /\ Held(writes', flag')
    <3>1. screen' = screen
      BY <2>2 DEF Click
    <3> QED  BY <2>2, <3>1, ClickHeld
  <2> QED  BY <1>5, <2>1, <2>2
<1>6. ASSUME NEW w \in writes, ServerWrites(w) \/ Answer(w)
      PROVE  screen' = screen /\ Held(writes', flag')
  <2>1. CASE ServerWrites(w)
    BY <1>0, <2>1, DoneHeld DEF ServerWrites
  <2>2. CASE WriteAnswers(w) \/ WriteFails(w)
    <3>1. PICK W, f : W = Others(w) /\ f = Unflag(w)
      OBVIOUS
    <3>2. Held(W, f) /\ screen' = screen
      BY <2>2, <3>1, AnswerHeld DEF WriteAnswers, WriteFails
    <3>3. Close(W, f) \/ (flag' = f /\ writes' = W)
      BY <2>2, <3>1 DEF WriteAnswers, WriteFails
    <3> QED  BY <3>2, <3>3, ClosedHeld
  <2>3. CASE WriteLeads(w)
    <3>1. Held(writes \ {w}, flag)
      BY <1>0, FewerHeld
    <3> QED  BY <1>0, <2>3, <3>1, GoneHeld DEF WriteLeads
  <2>4. CASE AnswerDropped(w)
    BY <1>0, <2>4, FewerHeld DEF AnswerDropped
  <2> QED  BY <1>6, <2>1, <2>2, <2>3, <2>4 DEF Answer
<1>7. CASE UNCHANGED screenVars
  BY <1>0, <1>7 DEF screenVars
<1> QED  BY <1>1, <1>2, <1>3, <1>4, <1>5, <1>6, <1>7 DEF ScreenNext

-----------------------------------------------------------------------------
\* The tables.

\* No list that follows a selection is overwritten by an answer, or loaded
\* again without the spinner by one.
FollowsSafely(s) ==
    s.selects = "follows" =>
        s.lists = TRUE /\ \A a \in DOMAIN s.requests : s.requests[a].after \notin {"overwrite", "refresh"}

LEMMA TableForms ==
    ASSUME NEW h, NEW R
    PROVE  /\ List(h, R).selects = "no" /\ Form(R).selects = "no"
           /\ Polled(List(h, R)).selects = "no" /\ Emptied(List(h, R)).selects = "no"
           /\ Uncovered(List(h, R)).selects = "no" /\ Polled(Uncovered(List(h, R))).selects = "no"
           /\ Emptied(Uncovered(List(h, R))).selects = "no"
BY DEF List, Form, Polled, Emptied, Uncovered

LEMMA RemountedForms ==
    ASSUME NEW h, NEW R
    PROVE  /\ Remounted(List(h, R)).selects = "remounts"
           /\ Remounted(Refreshed(List(h, R))).selects = "remounts"
           /\ Remounted(Emptied(List(h, R))).selects = "remounts"
           /\ Remounted(Emptied(Uncovered(List(h, R)))).selects = "remounts"
BY DEF List, Refreshed, Emptied, Uncovered, Remounted

NoneOverwrites(R) == \A a \in DOMAIN R : R[a].after \notin {"overwrite", "refresh"}

LEMMA SelectedForms ==
    ASSUME NEW h, NEW R, NoneOverwrites(R)
    PROVE  /\ FollowsSafely(Selected(List(h, R)))
           /\ FollowsSafely(Refreshed(Selected(List(h, R))))
           /\ FollowsSafely(Selected(Emptied(Uncovered(List(h, R)))))
           /\ FollowsSafely(Selected(HalfEmptied(Uncovered(List(h, R)))))
           /\ FollowsSafely(Selected(Emptied(Refreshed(List(h, R)))))
           /\ FollowsSafely(Selected(Uncovered(List(h, R))))
<1>1. ASSUME NEW s, s.lists = TRUE, s.requests = R
      PROVE  FollowsSafely(s)
  BY <1>1 DEF NoneOverwrites, FollowsSafely
<1>2. ASSUME NEW s \in {Selected(List(h, R)), Refreshed(Selected(List(h, R))),
                        Selected(Emptied(Uncovered(List(h, R)))), Selected(HalfEmptied(Uncovered(List(h, R)))),
                        Selected(Emptied(Refreshed(List(h, R)))), Selected(Uncovered(List(h, R)))}
      PROVE  s.lists = TRUE /\ s.requests = R
  BY DEF List, Refreshed, Emptied, HalfEmptied, Uncovered, Selected
<1> QED  BY <1>1, <1>2

LEMMA RequestForms ==
    ASSUME NEW g, NEW a, NEW d
    PROVE  /\ Request(g, a).after = a /\ OnRow(Request(g, a)).after = a
           /\ InDialog(d, Request(g, a)).after = a /\ InPart(d, Request(g, a)).after = a
BY DEF Request, OnRow, InDialog, InPart

LEMMA AdminTable == \A s \in AdminScreens : FollowsSafely(s)
BY TableForms DEF AdminScreens, UsersTab, WorkersTab, FlagsTab, PlansPart, SubscribersPart, InvoicesTab,
   DiscountsTab, ManagementTab, OrgPlansPart, MetricsTab, OrganizationsList, SystemTab, CommissionPart,
   AdminTab, FollowsSafely

LEMMA AccountTable == \A s \in AccountScreenSet : FollowsSafely(s)
<1>1. FollowsSafely(AccountPage) /\ FollowsSafely(ApiTokens) /\ FollowsSafely(SettingsPage) /\ FollowsSafely(ApiTokensEarlier)
  BY TableForms DEF AccountPage, ApiTokens, SettingsPage, ApiTokensEarlier, FollowsSafely
<1>2. FollowsSafely(InvoicesOf) /\ FollowsSafely(ReceiptsPage)
  <2>1. NoneOverwrites(NoRequest)
    BY DEF NoneOverwrites, NoRequest
  <2> QED  BY <2>1, SelectedForms DEF InvoicesOf, ReceiptsPage
<1>3. \A R : NoneOverwrites(R) => FollowsSafely(PlanOf(R))
  BY SelectedForms DEF PlanOf
<1>4. FollowsSafely(PlanOf(CheckoutPopup))
  <2>1. ApplyDiscount.after = "nothing" /\ Checkout.after = "leaves"
    BY RequestForms DEF ApplyDiscount, Checkout
  <2>2. NoneOverwrites(CheckoutPopup)
    BY <2>1 DEF CheckoutPopup, NoneOverwrites
  <2> QED  BY <1>3, <2>2
<1>5. FollowsSafely(PlanOf([quote |-> RequestPlanQuote]))
  <2>1. RequestPlanQuote.after = "nothing"
    BY RequestForms DEF RequestPlanQuote
  <2>2. NoneOverwrites([quote |-> RequestPlanQuote])
    BY <2>1 DEF NoneOverwrites
  <2> QED  BY <1>3, <2>2
<1>6. FollowsSafely(BillingEarlier)
  <2>1. Upgrade.after = "leaves" /\ ManageSubscription.after = "leaves" /\ CancelPlan.after = "reload"
    BY RequestForms DEF Upgrade, ManageSubscription, CancelPlan
  <2>2. NoneOverwrites([upgrade |-> Upgrade, manage |-> ManageSubscription, cancel |-> CancelPlan])
    BY <2>1 DEF NoneOverwrites
  <2> QED  BY <1>3, <2>2 DEF BillingEarlier
<1> QED  BY <1>1, <1>2, <1>4, <1>5, <1>6 DEF AccountScreenSet, BillingPage

LEMMA OrgTable == \A s \in OrgScreenSet : FollowsSafely(s)
<1>1. \A s \in OrganizationsPage \cup WorkspacesPage : FollowsSafely(s)
  BY TableForms DEF OrganizationsPage, WorkspacesPage, FollowsSafely
<1>2. \A s \in {MembersView, MembersViewLinks, GovernanceView, RolesView, AuditLogs, OrgOverview} : FollowsSafely(s)
  BY RemountedForms DEF MembersView, MembersViewLinks, GovernanceView, RolesView, AuditLogs, OrgOverview, FollowsSafely
<1>3. FollowsSafely(AnalyticsTab) /\ FollowsSafely(AuditTab)
  <2>1. NoneOverwrites(NoRequest)
    BY DEF NoneOverwrites, NoRequest
  <2> QED  BY <2>1, SelectedForms DEF AnalyticsTab, AuditTab
<1>4. FollowsSafely(MembersTab)
  <2>1. AddMember.after = "reload" /\ ChangeRole.after = "reload" /\ RemoveMember.after = "reload"
    BY RequestForms DEF AddMember, ChangeRole, RemoveMember
  <2>2. NoneOverwrites([add |-> AddMember, role |-> ChangeRole, remove |-> RemoveMember])
    BY <2>1 DEF NoneOverwrites
  <2> QED  BY <2>2, SelectedForms DEF MembersTab
<1> QED  BY <1>1, <1>2, <1>3, <1>4 DEF OrgScreenSet

LEMMA RoomTable == \A s \in RoomScreenSet : FollowsSafely(s)
<1>1. \A s \in ModePages \cup {DashboardHome, DashboardEarlier, BotStatuses, SubscriptionCard, SessionList,
                               HistoryPage, JoinRoomPage} : FollowsSafely(s)
  BY TableForms DEF ModePages, DashboardHome, DashboardEarlier, BotStatuses, SubscriptionCard, SessionList,
     HistoryPage, JoinRoomPage, FollowsSafely
<1>2. \A R : NoneOverwrites(R) => FollowsSafely(RoomsOf(R)) /\ FollowsSafely(Refreshed(RoomsOf(R)))
  BY SelectedForms DEF RoomsOf
<1>3. FollowsSafely(RoomsPage)
  <2>1. EditRoom.after = "reload" /\ DeleteRoom.after = "patch" /\ InviteToRoom.after = "nothing"
    BY RequestForms DEF EditRoom, DeleteRoom, InviteToRoom
  <2>2. NoneOverwrites([edit |-> EditRoom, delete |-> DeleteRoom, invite |-> InviteToRoom])
    BY <2>1 DEF NoneOverwrites
  <2> QED  BY <1>2, <2>2 DEF RoomsPage
<1>4. FollowsSafely(RoomsEarlier) /\ FollowsSafely(RoomsEarlierDialogs)
  <2>1. /\ CreateRoomModal.after = "patch" /\ DeleteRoomEarlier.after = "patch"
        /\ EditRoomModal.after = "patch" /\ InviteEarlier.after = "nothing"
    BY RequestForms DEF CreateRoomModal, DeleteRoomEarlier, EditRoomModal, InviteEarlier
  <2>2. /\ NoneOverwrites([create |-> CreateRoomModal, delete |-> DeleteRoomEarlier])
        /\ NoneOverwrites([edit |-> EditRoomModal, invite |-> InviteEarlier])
    BY <2>1 DEF NoneOverwrites
  <2> QED  BY <1>2, <2>2 DEF RoomsEarlier, RoomsEarlierDialogs
<1>5. FollowsSafely(TranscriptsView) /\ FollowsSafely(TranscriptsEarlier)
  <2>1. DeleteTranscript.after = "patch" /\ DeleteTranscriptEarlier.after = "patch"
    BY RequestForms DEF DeleteTranscript, DeleteTranscriptEarlier
  <2>2. NoneOverwrites([delete |-> DeleteTranscript]) /\ NoneOverwrites([delete |-> DeleteTranscriptEarlier])
    BY <2>1 DEF NoneOverwrites
  <2> QED  BY <2>2, SelectedForms DEF TranscriptsView, TranscriptsEarlier
<1> QED  BY <1>1, <1>3, <1>4, <1>5 DEF RoomScreenSet

LEMMA EveryTable == \A s \in AllScreens : FollowsSafely(s)
BY AdminTable, AccountTable, OrgTable, RoomTable DEF AllScreens

-----------------------------------------------------------------------------
\* What a control acts on.

\* A list of nothing is of no selection.
NoneIsNone == rows.of = 0 => rows = NoRows

\* A component that is mounted anew for each selection knows but one.
KeyStays ==
    screen.selects # "follows" =>
        /\ \A w \in writes : w.dropped \/ w.key = key
        /\ \A l \in loads : l.key = key
        /\ rows.of \in {0, key}

\* One that follows the selection shows its list, or a late one, once the
\* spinner is gone; a list that never came leaves nobody who could fill it in.
HidesRows ==
    screen.selects = "follows" /\ screen.hides /\ ~spinner =>
        /\ rows.of # 0 => rows.of = key \/ late
        /\ rows.of = 0 => late \/ (~mounted /\ loads = {} /\ \A w \in writes : w.dropped)

RowsInv ==
    /\ WritesInv /\ screen \in AllScreens
    /\ NoneIsNone /\ KeyStays /\ HidesRows /\ ActsOnItsRows

\* What answers and dialogs leave of a write.
Same(x, v) ==
    /\ x.n = v.n /\ x.key = v.key /\ x.of = v.of /\ x.late = v.late /\ x.row = v.row
    /\ v.dropped => x.dropped
    /\ v.done => x.done
ComeFrom(V, W) == \A x \in V : \E v \in W : Same(x, v)

LEMMA UpdatesSame ==
    ASSUME NEW w \in Write, NEW b
    PROVE  /\ Same([w EXCEPT !.freed = b], w) /\ Same([w EXCEPT !.done = TRUE], w)
           /\ Same([w EXCEPT !.dropped = TRUE, !.freed = TRUE], w)
           /\ [w EXCEPT !.dropped = TRUE, !.freed = TRUE].dropped
BY DEF Write, Same

LEMMA SetsComeFrom ==
    ASSUME NEW W \in SUBSET Write, NEW a, NEW S
    PROVE  /\ ComeFrom(W, W) /\ ComeFrom(Freed(a, W), W) /\ ComeFrom(TakenFrom(S, W), W)
           /\ ComeFrom(Gone(W), W) /\ \A x \in Gone(W) : x.dropped
<1>1. ComeFrom(W, W)
  BY DEF ComeFrom, Same
<1>2. \A w \in W : Same([w EXCEPT !.freed = (@ \/ w.act = a)], w) /\ Same([w EXCEPT !.freed = (@ \/ w.act \in S)], w)
  BY UpdatesSame
<1>3. ComeFrom(Freed(a, W), W)
  BY <1>1, <1>2 DEF ComeFrom, Freed
<1>4. ComeFrom(TakenFrom(S, W), W)
  BY <1>2 DEF ComeFrom, TakenFrom
<1>5. ComeFrom(Gone(W), W) /\ \A x \in Gone(W) : x.dropped
  BY UpdatesSame DEF ComeFrom, Gone
<1> QED  BY <1>1, <1>3, <1>4, <1>5

LEMMA ComeFromTwice ==
    ASSUME NEW U, NEW V, NEW W, ComeFrom(U, V), ComeFrom(V, W)
    PROVE  ComeFrom(U, W)
BY DEF ComeFrom, Same

LEMMA ComeFromMore ==
    ASSUME NEW U, NEW V, NEW W, ComeFrom(U, V), V \subseteq W
    PROVE  ComeFrom(U, W)
BY DEF ComeFrom

LEMMA CloseComesFrom ==
    ASSUME NEW W \in SUBSET Write, NEW f, Close(W, f)
    PROVE  ComeFrom(writes', W)
<1>1. PICK S : S = {a \in Controls : Holds(a)}
  OBVIOUS
<1>2. writes' = TakenFrom(S, W)
  BY <1>1 DEF Close, TakenFrom, Write
<1> QED  BY <1>2, SetsComeFrom

LEMMA AnswerComesFrom ==
    ASSUME WritesInv, NEW w \in writes, ServerWrites(w) \/ Answer(w)
    PROVE  ComeFrom(writes', writes)
<1>0. writes \in SUBSET Write /\ ComeFrom(writes, writes)
  BY SetsComeFrom DEF WritesInv, Held, HeldBy
<1>1. CASE ServerWrites(w)
  <2>1. Same([w EXCEPT !.done = TRUE], w)
    BY <1>0, UpdatesSame
  <2> QED  BY <1>0, <1>1, <2>1 DEF ServerWrites, ComeFrom
<1>2. CASE WriteAnswers(w) \/ WriteFails(w)
  <2>1. PICK W, f : W = Others(w) /\ f = Unflag(w)
    OBVIOUS
  <2>2. ComeFrom(W, writes \ {w})
    BY <1>0, <2>1, SetsComeFrom DEF Others
  <2>3. ComeFrom(W, writes)
    BY <2>2, ComeFromMore
  <2>4. Close(W, f) \/ writes' = W
    BY <1>2, <2>1 DEF WriteAnswers, WriteFails
  <2>5. W \in SUBSET Write
    <3>1. w.act \in Controls /\ ~w.dropped
      BY <1>0, <1>2 DEF Write, WriteAnswers, WriteFails
    <3> QED  BY <3>1, <2>1, AnswerHeld DEF Held, HeldBy
  <2> QED  BY <2>3, <2>4, <2>5, CloseComesFrom, ComeFromTwice
<1>3. CASE WriteLeads(w)
  <2>1. ComeFrom(Gone(writes \ {w}), writes \ {w})
    BY <1>0, SetsComeFrom
  <2> QED  BY <1>3, <2>1, ComeFromMore DEF WriteLeads
<1>4. CASE AnswerDropped(w)
  BY <1>0, <1>4 DEF AnswerDropped, ComeFrom
<1> QED  BY <1>1, <1>2, <1>3, <1>4 DEF Answer

LEMMA WritesComeFrom ==
    ASSUME WritesInv, [ScreenNext]_screenVars, ~ \E a \in Controls, r \in Rows \cup {Whole} : Click(a, r)
    PROVE  ComeFrom(writes', writes)
<1>0. writes \in SUBSET Write /\ ComeFrom(writes, writes)
  BY SetsComeFrom DEF WritesInv, Held, HeldBy
<1>1. ASSUME NEW k \in Keys, Select(k) \/ SelectAnew(k)
      PROVE  ComeFrom(writes', writes)
  BY <1>0, <1>1, SetsComeFrom DEF Select, SelectAnew
<1>2. CASE LoadAgain \/ Return \/ Leave
  BY <1>0, <1>2, SetsComeFrom DEF LoadAgain, Return, Leave, Unmount
<1>3. CASE Dismiss
  BY <1>0, <1>3, CloseComesFrom DEF Dismiss
<1>4. ASSUME NEW l \in loads, ServerReads(l) \/ LoadAnswers(l) \/ LoadFails(l)
      PROVE  ComeFrom(writes', writes)
  BY <1>0, <1>4 DEF ServerReads, LoadAnswers, LoadFails
<1>5. ASSUME NEW a \in Controls, OpenDialog(a)
      PROVE  ComeFrom(writes', writes)
  BY <1>0, <1>5 DEF OpenDialog
<1>6. CASE UNCHANGED screenVars
  BY <1>0, <1>6 DEF screenVars
<1> QED  BY <1>1, <1>2, <1>3, <1>4, <1>5, <1>6, AnswerComesFrom DEF ScreenNext

LEMMA InitWrites == ScreenInit => WritesInv
<1> SUFFICES ASSUME ScreenInit
             PROVE  WritesInv
  OBVIOUS
<1>1. Load(1, 1, TRUE) \in [n : Nat, key : Keys, loud : BOOLEAN, read : SUBSET Nat]
  BY ScreenAssumption DEF Load, Unread
<1>2. ScreenTypes
  BY <1>1, ScreenAssumption DEF ScreenInit, ScreenTypes, NoRows
<1>3. writes = {} /\ flag \in Flags
  BY AllFree DEF ScreenInit, Controls
<1> QED  BY <1>2, <1>3 DEF WritesInv, Held, HeldBy, GivenAway, OneHolds, Numbered

LEMMA SentGrows ==
    ASSUME ScreenTypes, [ScreenNext]_screenVars
    PROVE  sent' = sent \/ sent' = sent + 1
BY DEF ScreenNext, screenVars, Select, SelectAnew, LoadAgain, Leave, Return, Dismiss, ServerReads,
   LoadAnswers, LoadFails, OpenDialog, Click, ServerWrites, Answer, WriteAnswers, WriteLeads, WriteFails,
   AnswerDropped, Fetch, Refresh

LEMMA WritesStep == WritesInv /\ [ScreenNext]_screenVars => WritesInv'
<1> SUFFICES ASSUME WritesInv, [ScreenNext]_screenVars
             PROVE  WritesInv'
  OBVIOUS
<1>1. PICK W, f : W = writes' /\ f = flag'
  OBVIOUS
<1>2. Held(W, f)'
  BY <1>1, HeldStep, ScreenStays
<1>3. Held(writes, flag)'
  BY <1>1, <1>2
<1>4. \A w \in writes' : w.n <= sent'
  <2>0. sent \in Nat /\ writes \subseteq Write /\ (sent' = sent \/ sent' = sent + 1)
    BY SentGrows DEF WritesInv, ScreenTypes, Held, HeldBy
  <2>1. ASSUME NEW a \in Controls, NEW r \in Rows \cup {Whole}, Click(a, r)
        PROVE  \A w \in writes' : w.n <= sent'
    <3>1. writes' = Freed(a, writes) \cup {Sent(a, r)} /\ Sent(a, r).n = sent + 1 /\ sent' = sent + 1
      BY <2>1 DEF Click, Sent
    <3>2. ComeFrom(Freed(a, writes), writes)
      BY <2>0, SetsComeFrom
    <3>3. \A w \in writes : w.n \in Nat /\ w.n <= sent
      BY <2>0 DEF WritesInv, Write
    <3> QED  BY <2>0, <3>1, <3>2, <3>3 DEF ComeFrom, Same
  <2>2. CASE ~ \E a \in Controls, r \in Rows \cup {Whole} : Click(a, r)
    <3>1. ComeFrom(writes', writes)
      BY <2>2, WritesComeFrom
    <3>2. \A w \in writes : w.n \in Nat /\ w.n <= sent
      BY <2>0 DEF WritesInv, Write
    <3> QED  BY <2>0, <3>1, <3>2 DEF ComeFrom, Same
  <2> QED  BY <2>1, <2>2
<1> QED  BY <1>3, <1>4, ScreenTypesStep DEF WritesInv

\* A disabled control sends nothing, on any screen and for any number of calls.
THEOREM OneAtATime == ScreenSpec => []OneSubmission
<1>1. WritesInv => OneSubmission
  BY DEF WritesInv, Held, OneHolds, OneSubmission
<1> QED  BY <1>1, InitWrites, WritesStep, PTL DEF ScreenSpec

LEMMA ActsStep ==
    ASSUME RowsInv, [ScreenNext]_screenVars
    PROVE  ActsOnItsRows'
<1>0. screen' = screen
  BY HeldStep DEF RowsInv
<1>1. ASSUME NEW a \in Controls, NEW r \in Rows \cup {Whole}, Click(a, r)
      PROVE  ActsOnItsRows'
  <2>1. writes' = Freed(a, writes) \cup {Sent(a, r)}
    BY <1>1 DEF Click
  <2>2. ComeFrom(Freed(a, writes), writes)
    BY SetsComeFrom DEF RowsInv, WritesInv, Held, HeldBy
  <2>3. screen.hides /\ r # Whole => rows.of = key \/ late
    <3> SUFFICES ASSUME screen.hides, r # Whole
                 PROVE  rows.of = key \/ late
      OBVIOUS
    <3>1. mounted /\ rows # NoRows /\ ~spinner
      BY <1>1 DEF Click, Offered, Shown
    <3>2. rows.of # 0
      BY <3>1 DEF RowsInv, NoneIsNone
    <3> QED  BY <3>1, <3>2 DEF RowsInv, KeyStays, HidesRows
  <2>4. Sent(a, r).row = r /\ Sent(a, r).of = rows.of /\ Sent(a, r).key = key /\ Sent(a, r).late = late
    BY DEF Sent
  <2> QED  BY <1>0, <2>1, <2>2, <2>3, <2>4 DEF RowsInv, ActsOnItsRows, ComeFrom, Same
<1>2. CASE ~ \E a \in Controls, r \in Rows \cup {Whole} : Click(a, r)
  <2>1. ComeFrom(writes', writes)
    BY <1>2, WritesComeFrom DEF RowsInv
  <2> QED  BY <1>0, <2>1 DEF RowsInv, ActsOnItsRows, ComeFrom, Same
<1> QED  BY <1>1, <1>2

\* A handler or a control that leaves the list as it is.
LEMMA QuietStep ==
    ASSUME RowsInv, screen' = screen, ComeFrom(writes', writes),
           UNCHANGED <<key, rows, spinner, late, mounted, loads>>
    PROVE  NoneIsNone' /\ KeyStays' /\ HidesRows'
BY DEF RowsInv, NoneIsNone, KeyStays, HidesRows, ComeFrom, Same

LEMMA ClickRows ==
    ASSUME RowsInv, NEW a \in Controls, NEW r \in Rows \cup {Whole}, Click(a, r)
    PROVE  NoneIsNone' /\ KeyStays' /\ HidesRows'
<1>1. /\ writes' = Freed(a, writes) \cup {Sent(a, r)} /\ mounted
      /\ UNCHANGED <<screen, key, rows, spinner, late, mounted, loads>>
  BY DEF Click, Offered
<1>2. ComeFrom(Freed(a, writes), writes) /\ Sent(a, r).key = key
  BY SetsComeFrom DEF RowsInv, WritesInv, Held, HeldBy, Sent
<1>3. KeyStays'
  BY <1>1, <1>2 DEF RowsInv, KeyStays, ComeFrom, Same
<1> QED  BY <1>1, <1>3 DEF RowsInv, NoneIsNone, HidesRows

LEMMA SelectRows ==
    ASSUME RowsInv, NEW k \in Keys, Select(k) \/ SelectAnew(k)
    PROVE  NoneIsNone' /\ KeyStays' /\ HidesRows'
<1>1. CASE Select(k)
  <2>1. screen.selects = "follows" /\ screen.lists = TRUE
    BY <1>1, EveryTable DEF Select, RowsInv, FollowsSafely
  <2>2. screen' = screen /\ rows' = rows /\ spinner'
    BY <1>1, <2>1 DEF Select, Fetch
  <2> QED  BY <2>1, <2>2 DEF RowsInv, NoneIsNone, KeyStays, HidesRows
<1>2. CASE SelectAnew(k)
  <2>1. /\ screen' = screen /\ screen.selects = "remounts" /\ key' = k /\ rows' = NoRows
        /\ loads' = {Load(sent + 1, k, TRUE)} /\ writes' = Gone(writes)
    BY <1>2 DEF SelectAnew
  <2>2. (\A x \in writes' : x.dropped) /\ (\A l \in loads' : l.key = k) /\ rows'.of = 0
    BY <2>1, SetsComeFrom DEF RowsInv, WritesInv, Held, HeldBy, Load, NoRows
  <2> QED  BY <2>1, <2>2 DEF NoneIsNone, KeyStays, HidesRows
<1> QED  BY <1>1, <1>2

LEMMA LoadRows ==
    ASSUME RowsInv, LoadAgain \/ Return
    PROVE  NoneIsNone' /\ KeyStays' /\ HidesRows'
<1>1. PICK loud \in BOOLEAN : Fetch(key, loud) /\ (loud \/ mounted)
  BY DEF LoadAgain, Return
<1>2. screen' = screen /\ UNCHANGED <<key, rows, late, writes>> /\ (loud \/ mounted' = mounted)
  BY <1>1 DEF LoadAgain, Return
<1>3. screen.lists = TRUE \/ screen.selects # "follows"
  BY EveryTable DEF RowsInv, FollowsSafely
<1>4. loads' \subseteq loads \cup {Load(sent + 1, key, loud)} /\ (screen.lists = TRUE => (spinner' <=> (spinner \/ loud)))
  BY <1>1 DEF Fetch
<1>5. KeyStays'
  BY <1>2, <1>4 DEF RowsInv, KeyStays, Load
<1>6. HidesRows'
  BY <1>1, <1>2, <1>3, <1>4 DEF RowsInv, HidesRows
<1> QED  BY <1>2, <1>5, <1>6 DEF RowsInv, NoneIsNone

LEMMA LeaveRows ==
    ASSUME RowsInv, Leave
    PROVE  NoneIsNone' /\ KeyStays' /\ HidesRows'
<1>1. CASE screen.home = "tab"
  <2>1. /\ rows' = NoRows /\ loads' = {} /\ writes' = Gone(writes) /\ mounted' = FALSE
        /\ UNCHANGED <<screen, key>>
    BY <1>1 DEF Leave, Unmount
  <2>2. (\A x \in writes' : x.dropped) /\ rows'.of = 0
    BY <2>1, SetsComeFrom DEF RowsInv, WritesInv, Held, HeldBy, NoRows
  <2> QED  BY <2>1, <2>2 DEF NoneIsNone, KeyStays, HidesRows
<1>2. CASE screen.home # "tab"
  <2>1. mounted /\ UNCHANGED <<screen, key, rows, spinner, late, loads, writes>>
    BY <1>2 DEF Leave
  <2> QED  BY <2>1 DEF RowsInv, NoneIsNone, KeyStays, HidesRows
<1> QED  BY <1>1, <1>2

LEMMA AnsweredRows ==
    ASSUME RowsInv, NEW l \in loads, ServerReads(l) \/ LoadAnswers(l) \/ LoadFails(l)
    PROVE  NoneIsNone' /\ KeyStays' /\ HidesRows'
<1>0. /\ l \in [n : Nat, key : Keys, loud : BOOLEAN, read : SUBSET Nat] /\ l.key # 0
      /\ screen' = screen /\ UNCHANGED <<key, writes, mounted>>
  BY ScreenAssumption DEF RowsInv, WritesInv, ScreenTypes, ServerReads, LoadAnswers, LoadFails
<1>1. CASE ServerReads(l)
  <2>1. [l EXCEPT !.read = Done(l.key)].key = l.key
    BY <1>0
  <2>2. loads' = (loads \ {l}) \cup {[l EXCEPT !.read = Done(l.key)]} /\ UNCHANGED <<rows, spinner, late>>
    BY <1>1 DEF ServerReads
  <2> QED  BY <1>0, <2>1, <2>2 DEF RowsInv, NoneIsNone, KeyStays, HidesRows
<1>2. CASE LoadAnswers(l)
  <2>1. rows'.of = l.key /\ loads' \subseteq loads /\ (l.key # key => late')
    BY <1>2 DEF LoadAnswers
  <2> QED  BY <1>0, <2>1 DEF RowsInv, NoneIsNone, KeyStays, HidesRows
<1>3. CASE LoadFails(l)
  <2>1. rows' \in {rows, NoRows} /\ NoRows.of = 0 /\ loads' \subseteq loads /\ late'
    BY <1>3 DEF LoadFails, NoRows
  <2> QED  BY <1>0, <2>1 DEF RowsInv, NoneIsNone, KeyStays, HidesRows
<1> QED  BY <1>1, <1>2, <1>3

LEMMA AnswersRows ==
    ASSUME RowsInv, NEW w \in writes, WriteAnswers(w)
    PROVE  NoneIsNone' /\ KeyStays' /\ HidesRows'
<1>0. /\ screen' = screen /\ UNCHANGED <<key, late, mounted>> /\ ~w.dropped /\ Refresh(w)
      /\ w.key # 0 /\ w.act \in Controls /\ ComeFrom(writes', writes)
  <2>1. w \in Write /\ WritesInv
    BY DEF RowsInv, WritesInv, Held, HeldBy
  <2>2. w.key \in Keys /\ w.act \in Controls
    BY <2>1 DEF Write
  <2>3. ComeFrom(writes', writes)
    BY <2>1, AnswerComesFrom DEF Answer
  <2> QED  BY <2>2, <2>3, ScreenAssumption DEF WriteAnswers
<1>1. screen.selects # "follows" => w.key = key
  BY <1>0 DEF RowsInv, KeyStays
<1>2. screen.selects = "follows" => screen.lists = TRUE /\ At(w.act).after \notin {"overwrite", "refresh"}
  BY <1>0, EveryTable DEF RowsInv, FollowsSafely, At, Controls
<1>3. /\ \/ rows' = rows
         \/ rows'.of = w.key /\ (At(w.act).after = "overwrite" \/ rows.of \in {0, w.key})
      /\ \/ UNCHANGED <<spinner, loads>>
         \/ /\ rows' = rows
            /\ \E loud \in BOOLEAN : loads' \subseteq loads \cup {Load(sent + 1, w.key, loud)}
            /\ screen.lists = TRUE /\ At(w.act).after # "refresh" => spinner'
  <2>1. CASE At(w.act).after \in {"reload", "refresh"}
    BY <1>0, <2>1 DEF Refresh, Fetch
  <2>2. CASE At(w.act).after = "patch"
    BY <1>0, <2>2 DEF Refresh
  <2>3. CASE At(w.act).after = "overwrite"
    BY <1>0, <2>3 DEF Refresh
  <2>4. CASE At(w.act).after \notin {"reload", "refresh", "patch", "overwrite"}
    BY <1>0, <2>4 DEF Refresh
  <2> QED  BY <2>1, <2>2, <2>3, <2>4
<1>4. NoneIsNone'
  BY <1>0, <1>3 DEF RowsInv, NoneIsNone
<1>5. KeyStays'
  BY <1>0, <1>1, <1>3 DEF RowsInv, KeyStays, ComeFrom, Same, Load
<1>6. HidesRows'
  <2> SUFFICES ASSUME screen.selects = "follows", screen.hides, ~spinner'
               PROVE  /\ rows'.of # 0 => rows'.of = key \/ late
                      /\ rows'.of = 0 => late \/ (~mounted /\ loads' = {} /\ \A x \in writes' : x.dropped)
    BY <1>0 DEF HidesRows
  <2>1. UNCHANGED <<spinner, loads>>
    BY <1>2, <1>3, Zenon
  <2>2. ~spinner
    BY <2>1, Zenon
  <2>3. CASE rows' = rows
    BY <1>0, <2>1, <2>2, <2>3 DEF RowsInv, HidesRows, ComeFrom, Same
  <2>4. CASE rows'.of = w.key /\ rows.of \in {0, w.key}
    BY <1>0, <2>1, <2>2, <2>4 DEF RowsInv, HidesRows
  <2> QED  BY <1>2, <1>3, <2>3, <2>4
<1> QED  BY <1>4, <1>5, <1>6

LEMMA RowsStep ==
    ASSUME RowsInv, [ScreenNext]_screenVars
    PROVE  NoneIsNone' /\ KeyStays' /\ HidesRows'
<1>0. screen' = screen /\ WritesInv /\ writes \in SUBSET Write
  BY HeldStep DEF RowsInv, WritesInv, Held, HeldBy
<1>1. ASSUME NEW w \in writes, ServerWrites(w) \/ Answer(w)
      PROVE  NoneIsNone' /\ KeyStays' /\ HidesRows'
  <2>1. CASE ServerWrites(w) \/ WriteFails(w) \/ AnswerDropped(w)
    <3>1. ComeFrom(writes', writes)
      BY <1>0, <2>1, AnswerComesFrom DEF Answer
    <3>2. UNCHANGED <<key, rows, spinner, late, mounted, loads>>
      BY <2>1 DEF ServerWrites, WriteFails, AnswerDropped
    <3> QED  BY <1>0, <3>1, <3>2, QuietStep
  <2>2. CASE WriteLeads(w)
    <3>1. /\ rows' = NoRows /\ loads' = {} /\ mounted' = FALSE /\ writes' = Gone(writes \ {w})
          /\ UNCHANGED <<screen, key>>
      BY <2>2 DEF WriteLeads
    <3>2. (\A x \in writes' : x.dropped) /\ rows'.of = 0
      BY <1>0, <3>1, SetsComeFrom DEF NoRows
    <3> QED  BY <3>1, <3>2 DEF NoneIsNone, KeyStays, HidesRows
  <2> QED  BY <1>1, <2>1, <2>2, AnswersRows DEF Answer
<1>2. CASE Dismiss
  <2>1. ComeFrom(writes', writes)
    BY <1>0, <1>2, CloseComesFrom DEF Dismiss
  <2>2. UNCHANGED <<key, rows, spinner, late, mounted, loads>>
    BY <1>2 DEF Dismiss
  <2> QED  BY <1>0, <2>1, <2>2, QuietStep
<1>3. ASSUME UNCHANGED <<key, rows, spinner, late, mounted, loads, writes>>
      PROVE  NoneIsNone' /\ KeyStays' /\ HidesRows'
  BY <1>0, <1>3, SetsComeFrom, QuietStep
<1>4. ASSUME NEW a \in Controls, OpenDialog(a)
      PROVE  NoneIsNone' /\ KeyStays' /\ HidesRows'
  BY <1>3, <1>4 DEF OpenDialog
<1>5. CASE UNCHANGED screenVars
  BY <1>3, <1>5 DEF screenVars
<1> QED  BY <1>1, <1>2, <1>4, <1>5, ClickRows, SelectRows, LoadRows, LeaveRows, AnsweredRows DEF ScreenNext

\* A request keeps the selection it was sent for, and a page that hides its rows
\* while it loads shows rows of the selection, late ones, or none (Organizations.jsx
\* 243-262 and the other pages of the tables).
THEOREM RowsInvariant == ScreenSpec => []RowsInv
<1>1. ScreenInit => RowsInv
  <2> SUFFICES ASSUME ScreenInit
               PROVE  NoneIsNone /\ KeyStays /\ HidesRows /\ ActsOnItsRows
    BY InitWrites DEF RowsInv, ScreenInit
  <2>1. rows.of = 0 /\ rows = NoRows /\ key = 1 /\ writes = {} /\ loads \subseteq {Load(1, 1, TRUE)}
    BY DEF ScreenInit, NoRows
  <2>2. screen.selects = "follows" => spinner
    BY EveryTable DEF ScreenInit, FollowsSafely
  <2> QED  BY <2>1, <2>2 DEF NoneIsNone, KeyStays, HidesRows, ActsOnItsRows, Load
<1>2. RowsInv /\ [ScreenNext]_screenVars => RowsInv'
  <2> SUFFICES ASSUME RowsInv, [ScreenNext]_screenVars
               PROVE  RowsInv'
    OBVIOUS
  <2>1. WritesInv' /\ screen' = screen
    BY WritesStep, HeldStep DEF RowsInv
  <2> QED  BY <2>1, RowsStep, ActsStep DEF RowsInv
<1> QED  BY <1>1, <1>2, PTL DEF ScreenSpec

\* On every page that hides its rows while it loads, the row a control acts on is
\* one of the selection, unless the list shown is a late answer or a load failed.
THEOREM ActOnOwnRows == ScreenSpec => []ActsOnItsRows
<1>1. RowsInv => ActsOnItsRows
  BY DEF RowsInv
<1> QED  BY <1>1, RowsInvariant, PTL

-----------------------------------------------------------------------------
\* What the list has seen once nothing is in flight.

\* The numbers of requests and loads are given once, and what the server has
\* saved is the write of the page that has its number.
NumbersInv ==
    /\ newest \in Nat /\ newest <= sent + 1
    /\ \A l \in loads : l.n <= sent
    /\ \A s \in saved : s.n <= sent /\ \A w \in writes : w.n = s.n => w.done /\ w.key = s.key

\* The answer of write n has been handled.
Settled(n) == \A w \in writes : w.n # n
Good(l, n) == l.key = key /\ (l.read = Unread \/ n \in l.read)

\* A write that is settled is in the list, or a load is still to come; one that
\* would be shown without having seen it is overtaken by one that has.
Brought ==
    mounted /\ screen.lists = TRUE =>
        /\ late \/ rows.of = key \/ loads # {}
        /\ \A n \in Done(key) \ lost : Settled(n) =>
             /\ late \/ loads # {} \/ (rows.of = key /\ n \in rows.seen)
             /\ \A l \in loads : l.key = key /\ l.n >= newest =>
                  Good(l, n) \/ \E m \in loads : m.n > l.n /\ Good(m, n)

Keeps(V, W) == \A w \in W : \E x \in V : x.n = w.n

LEMMA SetsKeep ==
    ASSUME NEW W \in SUBSET Write, NEW a, NEW S
    PROVE  Keeps(W, W) /\ Keeps(Freed(a, W), W) /\ Keeps(TakenFrom(S, W), W)
<1> DEFINE F(w) == [w EXCEPT !.freed = (@ \/ w.act = a)]
           G(w) == [w EXCEPT !.freed = (@ \/ w.act \in S)]
<1>1. \A w \in W : F(w).n = w.n /\ G(w).n = w.n
  BY DEF Write
<1>2. /\ Freed(a, W) = W \/ \A w \in W : F(w) \in Freed(a, W)
      /\ \A w \in W : G(w) \in TakenFrom(S, W)
  BY DEF Freed, TakenFrom
<1> HIDE DEF F, G
<1> QED  BY <1>1, <1>2 DEF Keeps

LEMMA CloseKeeps ==
    ASSUME NEW W \in SUBSET Write, NEW f, Close(W, f)
    PROVE  Keeps(writes', W)
<1>1. PICK S : S = {a \in Controls : Holds(a)}
  OBVIOUS
<1>2. writes' = TakenFrom(S, W)
  BY <1>1 DEF Close, TakenFrom, Write
<1> QED  BY <1>2, SetsKeep

LEMMA AnswerKeeps ==
    ASSUME WritesInv, NEW w \in writes, WriteAnswers(w) \/ WriteFails(w) \/ AnswerDropped(w)
    PROVE  Keeps(writes', writes \ {w})
<1>0. writes \in SUBSET Write /\ w.act \in Controls
  BY DEF WritesInv, Held, HeldBy, Write
<1>1. CASE AnswerDropped(w)
  BY <1>0, <1>1, SetsKeep DEF AnswerDropped, Keeps
<1>2. CASE WriteAnswers(w) \/ WriteFails(w)
  <2>1. PICK W, f : W = Others(w) /\ f = Unflag(w)
    OBVIOUS
  <2>2. W \in SUBSET Write
    <3>1. ~w.dropped
      BY <1>2 DEF WriteAnswers, WriteFails
    <3> QED  BY <3>1, <2>1, AnswerHeld DEF Held, HeldBy
  <2>3. Keeps(W, writes \ {w})
    BY <1>0, <2>1, SetsKeep DEF Others
  <2>4. Keeps(writes', W)
    <3>1. Close(W, f) \/ writes' = W
      BY <1>2, <2>1 DEF WriteAnswers, WriteFails
    <3> QED  BY <2>2, <3>1, CloseKeeps, SetsKeep
  <2> QED  BY <2>3, <2>4 DEF Keeps
<1> QED  BY <1>1, <1>2

LEMMA NumbersStep ==
    ASSUME WritesInv, NumbersInv, [ScreenNext]_screenVars
    PROVE  NumbersInv'
<1> DEFINE LoadType == [n : Nat, key : Keys, loud : BOOLEAN, read : SUBSET Nat]
<1>0. /\ sent \in Nat /\ (sent' = sent \/ sent' = sent + 1) /\ loads \subseteq LoadType
      /\ writes \in SUBSET Write /\ saved \subseteq [n : Nat, key : Keys]
  BY SentGrows DEF WritesInv, ScreenTypes, Held, HeldBy
<1>1. ASSUME newest' \in Nat, newest' <= sent' + 1, \A l \in loads' : l.n <= sent'
      PROVE  NumbersInv'
  <2>1. ASSUME NEW a \in Controls, NEW r \in Rows \cup {Whole}, Click(a, r)
        PROVE  NumbersInv'
    <3>1. /\ writes' = Freed(a, writes) \cup {Sent(a, r)} /\ Sent(a, r).n = sent + 1
          /\ sent' = sent + 1 /\ saved' = saved
      BY <2>1 DEF Click, Sent
    <3>2. ComeFrom(Freed(a, writes), writes)
      BY <1>0, SetsComeFrom
    <3>3. \A s \in saved : s.n \in Nat /\ s.n # sent + 1 /\ s.n <= sent'
      BY <1>0, <3>1 DEF NumbersInv
    <3> QED  BY <1>1, <3>1, <3>2, <3>3 DEF NumbersInv, ComeFrom, Same
  <2>2. ASSUME NEW w \in writes, ServerWrites(w)
        PROVE  NumbersInv'
    <3>1. PICK d : d = [w EXCEPT !.done = TRUE]
      OBVIOUS
    <3>2. d.n = w.n /\ d.key = w.key /\ d.done /\ w.n \in Nat /\ w.n <= sent
      BY <1>0, <3>1 DEF Write, WritesInv
    <3>3. PICK t : t = [n |-> w.n, key |-> w.key]
      OBVIOUS
    <3>4. writes' = (writes \ {w}) \cup {d} /\ saved' \subseteq saved \cup {t} /\ sent' = sent
      BY <2>2, <3>1, <3>3 DEF ServerWrites
    <3>5. t.n = w.n /\ t.key = w.key
      BY <3>3
    <3>6. \A v \in writes \ {w} : v.n # w.n
      BY DEF WritesInv, Held, Numbered
    <3> QED  BY <1>0, <1>1, <3>2, <3>4, <3>5, <3>6 DEF NumbersInv
  <2>3. CASE /\ ~ \E a \in Controls, r \in Rows \cup {Whole} : Click(a, r)
             /\ ~ \E w \in writes : ServerWrites(w)
    <3>1. ComeFrom(writes', writes)
      BY <2>3, WritesComeFrom
    <3>2. saved' = saved
      BY <2>3 DEF ScreenNext, screenVars, Select, SelectAnew, LoadAgain, Leave, Return, Dismiss, ServerReads,
         LoadAnswers, LoadFails, OpenDialog, Answer, WriteAnswers, WriteLeads, WriteFails, AnswerDropped
    <3>3. \A s \in saved : s.n \in Nat /\ s.n <= sent'
      BY <1>0 DEF NumbersInv
    <3> QED  BY <1>1, <3>1, <3>2, <3>3 DEF NumbersInv, ComeFrom, Same
  <2> QED  BY <2>1, <2>2, <2>3
<1>2. ASSUME UNCHANGED <<loads, newest>>
      PROVE  NumbersInv'
  BY <1>0, <1>1, <1>2 DEF NumbersInv
<1>3. ASSUME NEW k, NEW loud, Fetch(k, loud), newest' = newest
      PROVE  NumbersInv'
  <2>1. Load(sent + 1, k, loud).n = sent + 1 /\ sent' = sent + 1
    BY <1>3 DEF Load, Fetch
  <2>2. loads' \subseteq loads \cup {Load(sent + 1, k, loud)}
    BY <1>3 DEF Fetch
  <2>3. newest' \in Nat /\ newest' <= sent' + 1
    BY <1>0, <1>3, <2>1 DEF NumbersInv
  <2>4. \A l \in loads : l.n \in Nat /\ l.n <= sent
    BY <1>0 DEF NumbersInv
  <2> QED  BY <1>0, <1>1, <2>1, <2>2, <2>3, <2>4
<1>4. ASSUME NEW k \in Keys, Select(k) \/ SelectAnew(k)
      PROVE  NumbersInv'
  <2>1. CASE Select(k)
    BY <1>3, <2>1 DEF Select
  <2>2. CASE SelectAnew(k)
    <3>1. Load(sent + 1, k, TRUE).n = sent + 1 /\ sent' = sent + 1 /\ newest' = newest
          /\ loads' = {Load(sent + 1, k, TRUE)}
      BY <2>2 DEF Load, SelectAnew
    <3>2. newest' \in Nat /\ newest' <= sent' + 1
      BY <1>0, <3>1 DEF NumbersInv
    <3>3. \A l \in loads' : l.n <= sent'
      <4>1. \A l \in loads' : l.n = sent'
        BY <3>1, Zenon
      <4>2. sent' \in Nat
        BY <1>0
      <4> QED  BY <4>1, <4>2
    <3> QED  BY <1>1, <3>2, <3>3
  <2> QED  BY <1>4, <2>1, <2>2
<1>5. CASE LoadAgain \/ Return
  BY <1>3, <1>5 DEF LoadAgain, Return
<1>6. CASE Leave \/ Dismiss
  <2>1. loads' \subseteq loads /\ newest' = newest
    BY <1>6 DEF Leave, Unmount, Dismiss
  <2> QED  BY <1>0, <1>1, <2>1 DEF NumbersInv
<1>7. ASSUME NEW l \in loads, ServerReads(l) \/ LoadAnswers(l) \/ LoadFails(l)
      PROVE  NumbersInv'
  <2>1. l.n \in Nat /\ l.n <= sent /\ [l EXCEPT !.read = Done(l.key)].n = l.n /\ sent' = sent
    BY <1>0, <1>7 DEF NumbersInv, ServerReads, LoadAnswers, LoadFails
  <2>2. newest' \in {newest, l.n}
    BY <1>7 DEF ServerReads, LoadAnswers, LoadFails, Newer
  <2>3. loads' \subseteq loads \cup {[l EXCEPT !.read = Done(l.key)]}
    BY <1>7 DEF ServerReads, LoadAnswers, LoadFails
  <2> QED  BY <1>0, <1>1, <2>1, <2>2, <2>3 DEF NumbersInv
<1>8. ASSUME NEW a \in Controls, OpenDialog(a) \/ \E r \in Rows \cup {Whole} : Click(a, r)
      PROVE  NumbersInv'
  BY <1>2, <1>8 DEF OpenDialog, Click
<1>9. ASSUME NEW w \in writes, ServerWrites(w) \/ Answer(w)
      PROVE  NumbersInv'
  <2>1. CASE ServerWrites(w) \/ WriteFails(w) \/ AnswerDropped(w)
    BY <1>2, <2>1 DEF ServerWrites, WriteFails, AnswerDropped
  <2>2. CASE WriteLeads(w)
    BY <1>0, <1>1, <2>2 DEF WriteLeads, NumbersInv
  <2>3. CASE WriteAnswers(w)
    <3>1. CASE At(w.act).after \in {"reload", "refresh"}
      BY <1>3, <2>3, <3>1 DEF WriteAnswers, Refresh
    <3>2. CASE At(w.act).after \notin {"reload", "refresh"}
      <4>1. loads' = loads /\ newest' \in {newest, sent + 1} /\ sent' = sent
        BY <2>3, <3>2 DEF WriteAnswers, Refresh
      <4> QED  BY <1>0, <1>1, <4>1 DEF NumbersInv
    <3> QED  BY <3>1, <3>2
  <2> QED  BY <1>9, <2>1, <2>2, <2>3 DEF Answer
<1>10. CASE UNCHANGED screenVars
  BY <1>2, <1>10 DEF screenVars
<1> QED  BY <1>4, <1>5, <1>6, <1>7, <1>8, <1>9, <1>10 DEF ScreenNext

\* A load that was just asked for will see all that is settled.
LEMMA FreshLoad ==
    ASSUME ScreenTypes, NumbersInv, NEW L, L \in loads', L.key = key', L.read = Unread, L.n = sent + 1,
           loads' \subseteq loads \cup {L}
    PROVE  Brought'
<1>1. \A l \in loads' : l = L \/ (l.n <= sent /\ l.n \in Nat /\ sent \in Nat)
  BY DEF ScreenTypes, NumbersInv
<1>2. \A n : Good(L, n)'
  BY DEF Good
<1>3. \A n : \A l \in loads' : Good(l, n)' \/ \E m \in loads' : m.n > l.n /\ Good(m, n)'
  BY <1>1, <1>2
<1> QED  BY <1>3 DEF Brought

LEMMA FetchBrought ==
    ASSUME ScreenTypes, NumbersInv, NEW loud, Fetch(key', loud), screen' = screen
    PROVE  Brought'
<1>1. PICK L : L = Load(sent + 1, key', loud)
  OBVIOUS
<1>2. L.key = key' /\ L.read = Unread /\ L.n = sent + 1
  BY <1>1 DEF Load
<1>3. CASE screen.lists = TRUE
  <2>1. loads' = loads \cup {L}
    BY <1>1, <1>3 DEF Fetch
  <2> QED  BY <1>2, <2>1, FreshLoad
<1>4. CASE screen.lists # TRUE
  BY <1>4 DEF Brought
<1> QED  BY <1>3, <1>4

LEMMA QuietBrought ==
    ASSUME Brought, screen' = screen, UNCHANGED <<key, rows, late, loads, newest>>, mounted' => mounted,
           \A n \in Done(key)' \ lost' : Settled(n)' => n \in Done(key) \ lost /\ Settled(n)
    PROVE  Brought'
<1>1. \A l, n : Good(l, n)' <=> Good(l, n)
  BY DEF Good
<1> QED  BY <1>1 DEF Brought

LEMMA SettledBefore ==
    ASSUME NEW W, W \subseteq writes, Keeps(writes', W), NEW n, Settled(n)'
    PROVE  \A w \in W : w.n # n
BY DEF Keeps, Settled

LEMMA AnsweredBrought ==
    ASSUME RowsInv, NumbersInv, Brought, NEW l \in loads, ServerReads(l) \/ LoadAnswers(l) \/ LoadFails(l)
    PROVE  Brought'
<1>0. /\ \A m \in loads : m \in [n : Nat, key : Keys, loud : BOOLEAN, read : SUBSET Nat] /\ m.n \in Nat
      /\ screen' = screen /\ UNCHANGED <<key, writes, mounted, saved, lost>>
      /\ Done(key)' = Done(key) /\ newest \in Nat
  BY DEF RowsInv, WritesInv, ScreenTypes, ServerReads, LoadAnswers, LoadFails, Done, NumbersInv
<1>1. \A n : Settled(n)' <=> Settled(n)
  BY <1>0 DEF Settled
<1>2. \A m, n : Good(m, n)' <=> Good(m, n)
  BY <1>0 DEF Good
<1>3. CASE ServerReads(l)
  <2>1. PICK r : r = [l EXCEPT !.read = Done(l.key)]
    OBVIOUS
  <2>2. r.key = l.key /\ r.n = l.n /\ r.read = Done(l.key)
    BY <1>0, <2>1
  <2>3. loads' = (loads \ {l}) \cup {r} /\ UNCHANGED <<rows, late, newest>>
    BY <1>3, <2>1 DEF ServerReads
  <2>4. \A n \in Done(key) : r.key = key => Good(r, n)
    BY <2>2 DEF Good
  <2>5. \A n \in Done(key) : Good(l, n) => Good(r, n)
    BY <2>2, <2>4 DEF Good
  <2>6. \A n \in Done(key) \ lost : Settled(n) /\ mounted /\ screen.lists = TRUE =>
          \A m \in loads' : m.key = key /\ m.n >= newest =>
            Good(m, n) \/ \E k \in loads' : k.n > m.n /\ Good(k, n)
    <3> SUFFICES ASSUME NEW n \in Done(key) \ lost, Settled(n), mounted, screen.lists = TRUE,
                        NEW m \in loads', m.key = key, m.n >= newest, ~Good(m, n)
                 PROVE  \E k \in loads' : k.n > m.n /\ Good(k, n)
      OBVIOUS
    <3>1. m # r /\ m \in loads
      BY <2>3, <2>4
    <3>2. PICK k \in loads : k.n > m.n /\ Good(k, n)
      BY <3>1 DEF Brought
    <3>3. CASE k = l
      BY <2>2, <2>3, <2>5, <3>2, <3>3
    <3>4. CASE k # l
      BY <2>3, <3>2, <3>4
    <3> QED  BY <3>3, <3>4
  <2> QED  BY <1>0, <1>1, <1>2, <2>3, <2>6 DEF Brought
<1>4. CASE LoadAnswers(l) \/ LoadFails(l)
  <2>1. loads' = loads \ {l} /\ newest' = Newer(l.n)
    BY <1>4 DEF LoadAnswers, LoadFails
  <2>2. newest' >= l.n /\ newest' >= newest /\ newest' \in {l.n, newest}
    BY <1>0, <2>1 DEF Newer
  <2>3. \A n \in Done(key) \ lost : Settled(n) /\ mounted /\ screen.lists = TRUE =>
          \A m \in loads' : m.key = key /\ m.n >= newest' =>
            Good(m, n) \/ \E k \in loads' : k.n > m.n /\ Good(k, n)
    <3> SUFFICES ASSUME NEW n \in Done(key) \ lost, Settled(n), mounted, screen.lists = TRUE,
                        NEW m \in loads', m.key = key, m.n >= newest', ~Good(m, n)
                 PROVE  \E k \in loads' : k.n > m.n /\ Good(k, n)
      OBVIOUS
    <3>1. m \in loads /\ m.n \in Nat /\ m.n >= newest /\ m.n >= l.n
      BY <1>0, <2>1, <2>2
    <3>2. PICK k \in loads : k.n > m.n /\ Good(k, n)
      BY <3>1 DEF Brought
    <3>3. k # l
      BY <1>0, <3>1, <3>2
    <3> QED  BY <2>1, <3>2, <3>3
  <2>4. CASE late'
    BY <1>0, <1>1, <1>2, <2>3, <2>4 DEF Brought
  <2>5. CASE ~late'
    <3>1. /\ l.key = key /\ l.n >= newest /\ l.read # Unread
          /\ rows'.of = key /\ rows'.seen = l.read
      <4>1. LoadAnswers(l)
        BY <1>4, <2>5 DEF LoadFails
      <4>2. ~(l.key # key \/ l.n < newest) /\ l.read # Unread /\ rows' = [of |-> l.key, seen |-> l.read]
        BY <4>1, <2>5 DEF LoadAnswers
      <4>3. l.n \in Nat /\ newest \in Nat
        BY <1>0
      <4> QED  BY <4>2, <4>3
    <3>2. \A n \in Done(key) \ lost : Settled(n) /\ mounted /\ screen.lists = TRUE => loads' # {} \/ n \in l.read
      <4> SUFFICES ASSUME NEW n \in Done(key) \ lost, Settled(n), mounted, screen.lists = TRUE, n \notin l.read
                   PROVE  loads' # {}
        OBVIOUS
      <4>1. ~Good(l, n)
        BY <3>1 DEF Good
      <4>2. PICK k \in loads : k.n > l.n
        BY <3>1, <4>1 DEF Brought
      <4> QED  BY <1>0, <2>1, <4>2
    <3> QED  BY <1>0, <1>1, <1>2, <2>3, <3>1, <3>2 DEF Brought
  <2> QED  BY <2>4, <2>5
<1> QED  BY <1>3, <1>4

LEMMA AnswersBrought ==
    ASSUME RowsInv, NumbersInv, Brought, NEW w \in writes, WriteAnswers(w)
    PROVE  Brought'
<1>0. /\ screen' = screen /\ UNCHANGED <<key, late, mounted, saved>> /\ ~w.dropped /\ Refresh(w)
      /\ w.key # 0 /\ w.key \in Keys /\ w.act \in Controls /\ key \in Keys /\ key # 0
      /\ Done(key)' = Done(key) /\ WritesInv /\ ScreenTypes
  <2>1. w \in Write /\ WritesInv
    BY DEF RowsInv, WritesInv, Held, HeldBy
  <2>2. w.key \in Keys /\ w.act \in Controls /\ key \in Keys
    BY <2>1 DEF Write, WritesInv, ScreenTypes
  <2> QED  BY <2>1, <2>2, ScreenAssumption DEF WriteAnswers, Done, WritesInv
<1>1. \A n : Settled(n)' => n = w.n \/ Settled(n)
  <2>1. Keeps(writes', writes \ {w})
    BY <1>0, AnswerKeeps
  <2> QED  BY <2>1 DEF Keeps, Settled
<1>2. w.n \in Done(key) => w.key = key
  BY DEF NumbersInv, Done
<1>3. \A m, n : Good(m, n)' <=> Good(m, n)
  BY <1>0 DEF Good
<1>4. CASE At(w.act).after \in {"reload", "refresh"} /\ w.key = key
  BY <1>0, <1>4, FetchBrought DEF Refresh
<1>5. CASE At(w.act).after \in {"reload", "refresh"} /\ w.key # key
  <2>1. PICK L : L = Load(sent + 1, w.key, At(w.act).after = "reload")
    OBVIOUS
  <2>2. L.key # key
    BY <1>5, <2>1 DEF Load
  <2>3. loads' \subseteq loads \cup {L} /\ loads \subseteq loads' /\ UNCHANGED <<rows, newest, lost>>
    BY <1>0, <1>5, <2>1 DEF Refresh, Fetch
  <2>4. \A n \in Done(key) \ lost : Settled(n)' => Settled(n)
    BY <1>1, <1>2, <1>5
  <2> QED  BY <1>0, <1>3, <2>2, <2>3, <2>4 DEF Brought
<1>6. ASSUME rows'.of = w.key, w.n \in rows'.seen, newest' = sent + 1, loads' = loads, lost \subseteq lost',
             rows.of = key => w.key = key /\ \A n \in rows.seen : n \in lost' \/ n \in rows'.seen
      PROVE  Brought'
  <2>1. ~ \E l \in loads : l.n >= newest'
    BY <1>0, <1>6 DEF NumbersInv, ScreenTypes
  <2>2. \A n \in Done(key) \ lost' : Settled(n)' /\ mounted /\ screen.lists = TRUE =>
          late \/ loads # {} \/ (rows'.of = key /\ n \in rows'.seen)
    <3> SUFFICES ASSUME NEW n \in Done(key) \ lost', Settled(n)', mounted, screen.lists = TRUE
                 PROVE  late \/ loads # {} \/ (rows'.of = key /\ n \in rows'.seen)
      OBVIOUS
    <3>1. CASE n = w.n
      BY <1>2, <1>6, <3>1
    <3>2. CASE Settled(n)
      BY <1>6, <3>2 DEF Brought
    <3> QED  BY <1>1, <3>1, <3>2
  <2> QED  BY <1>0, <1>6, <2>1, <2>2 DEF Brought
<1>7. ASSUME UNCHANGED <<rows, loads, newest>>, lost' = lost \cup {w.n}
      PROVE  Brought'
  <2>1. \A n \in Done(key)' \ lost' : Settled(n)' => n \in Done(key) \ lost /\ Settled(n)
    BY <1>0, <1>1, <1>7
  <2> QED  BY <1>0, <1>7, <2>1, QuietBrought
<1>8. CASE At(w.act).after = "patch"
  <2>1. CASE rows.of \in {0, w.key}
    BY <1>0, <1>6, <1>8, <2>1 DEF Refresh
  <2>2. CASE rows.of \notin {0, w.key}
    BY <1>0, <1>7, <1>8, <2>2 DEF Refresh
  <2> QED  BY <2>1, <2>2
<1>9. CASE At(w.act).after = "overwrite"
  <2>1. w.key = key
    BY <1>0, <1>9, EveryTable DEF RowsInv, FollowsSafely, At, Controls, KeyStays
  <2> QED  BY <1>0, <1>6, <1>9, <2>1 DEF Refresh
<1>10. CASE At(w.act).after \notin {"reload", "refresh", "patch", "overwrite"}
  BY <1>0, <1>7, <1>10 DEF Refresh
<1> QED  BY <1>4, <1>5, <1>8, <1>9, <1>10

LEMMA BroughtStep ==
    ASSUME RowsInv, NumbersInv, Brought, [ScreenNext]_screenVars
    PROVE  Brought'
<1>0. /\ screen' = screen /\ WritesInv /\ ScreenTypes /\ writes \in SUBSET Write
      /\ saved \subseteq [n : Nat, key : Keys]
  BY HeldStep DEF RowsInv, WritesInv, Held, HeldBy, ScreenTypes
<1>1. ASSUME NEW k \in Keys, Select(k) \/ SelectAnew(k)
      PROVE  Brought'
  <2>1. CASE Select(k)
    BY <1>0, <2>1, FetchBrought DEF Select
  <2>2. CASE SelectAnew(k)
    <3>1. PICK L : L = Load(sent + 1, k, TRUE)
      OBVIOUS
    <3>2. L.key = key' /\ L.read = Unread /\ L.n = sent + 1 /\ loads' = {L}
      BY <2>2, <3>1 DEF SelectAnew, Load
    <3> QED  BY <1>0, <3>2, FreshLoad
  <2> QED  BY <1>1, <2>1, <2>2
<1>2. CASE LoadAgain
  BY <1>0, <1>2, FetchBrought DEF LoadAgain
<1>3. CASE Return
  BY <1>0, <1>3, FetchBrought DEF Return
<1>4. CASE Leave
  BY <1>4 DEF Leave, Brought
<1>5. CASE Dismiss
  <2>1. Keeps(writes', writes)
    BY <1>0, <1>5, CloseKeeps DEF Dismiss
  <2>2. \A n : Settled(n)' => Settled(n)
    BY <2>1 DEF Keeps, Settled
  <2>3. UNCHANGED <<key, rows, late, loads, newest, mounted, saved, lost>>
    BY <1>5 DEF Dismiss
  <2> QED  BY <1>0, <2>2, <2>3, QuietBrought DEF Done
<1>6. ASSUME NEW a \in Controls, OpenDialog(a)
      PROVE  Brought'
  <2>1. UNCHANGED <<key, rows, late, loads, newest, mounted, saved, lost, writes>>
    BY <1>6 DEF OpenDialog
  <2> QED  BY <1>0, <2>1, QuietBrought DEF Done, Settled
<1>7. ASSUME NEW a \in Controls, NEW r \in Rows \cup {Whole}, Click(a, r)
      PROVE  Brought'
  <2>1. Keeps(Freed(a, writes), writes) /\ writes' = Freed(a, writes) \cup {Sent(a, r)}
    BY <1>0, <1>7, SetsKeep DEF Click
  <2>2. \A n : Settled(n)' => Settled(n)
    BY <2>1 DEF Keeps, Settled
  <2>3. UNCHANGED <<key, rows, late, loads, newest, mounted, saved, lost>>
    BY <1>7 DEF Click
  <2> QED  BY <1>0, <2>2, <2>3, QuietBrought DEF Done
<1>8. ASSUME NEW w \in writes, ServerWrites(w) \/ WriteFails(w) \/ AnswerDropped(w)
      PROVE  Brought'
  <2>1. UNCHANGED <<key, rows, late, loads, newest, mounted>>
    BY <1>8 DEF ServerWrites, WriteFails, AnswerDropped
  <2>2. \A n \in Done(key)' \ lost' : Settled(n)' => n \in Done(key) \ lost /\ Settled(n)
    <3>1. CASE ServerWrites(w)
      <4>1. PICK d : d = [w EXCEPT !.done = TRUE]
        OBVIOUS
      <4>2. d.n = w.n /\ writes' = (writes \ {w}) \cup {d} /\ lost' = lost
        BY <1>0, <3>1, <4>1 DEF ServerWrites, Write
      <4>3. \A n : Settled(n)' => Settled(n) /\ n # w.n
        BY <4>2 DEF Settled
      <4>4. PICK t : t = [n |-> w.n, key |-> w.key]
        OBVIOUS
      <4>5. t.n = w.n /\ saved' \subseteq saved \cup {t} /\ key' = key
        BY <3>1, <4>4 DEF ServerWrites
      <4>6. \A n \in Done(key)' : n \in Done(key) \/ n = w.n
        BY <4>5 DEF Done
      <4> QED  BY <4>2, <4>3, <4>6
    <3>2. CASE WriteFails(w) \/ AnswerDropped(w)
      <4>1. \A n : Settled(n)' => n = w.n \/ Settled(n)
        <5>1. Keeps(writes', writes \ {w})
          BY <1>0, <3>2, AnswerKeeps
        <5> QED  BY <5>1 DEF Keeps, Settled
      <4>2. Done(key)' = Done(key) /\ lost \subseteq lost' /\ (w.done => w.n \in lost')
        BY <3>2 DEF Done, WriteFails, AnswerDropped
      <4>3. w.n \in Done(key) => w.done
        BY DEF Done, NumbersInv
      <4> QED  BY <4>1, <4>2, <4>3
    <3> QED  BY <1>8, <3>1, <3>2
  <2> QED  BY <1>0, <2>1, <2>2, QuietBrought
<1>9. ASSUME NEW w \in writes, WriteLeads(w)
      PROVE  Brought'
  BY <1>9 DEF WriteLeads, Brought
<1>10. CASE UNCHANGED screenVars
  <2>1. UNCHANGED <<key, rows, late, loads, newest, mounted, saved, lost, writes>>
    BY <1>10 DEF screenVars
  <2> QED  BY <1>0, <2>1, QuietBrought DEF Done, Settled
<1> QED  BY <1>1, <1>2, <1>3, <1>4, <1>5, <1>6, <1>7, <1>8, <1>9, <1>10, AnsweredBrought, AnswersBrought
         DEF ScreenNext, Answer

\* A write whose answer was handled is in the list shown, or a load that will show
\* it is on its way, unless an answer came late or a handler does not reload.
THEOREM BroughtInvariant == ScreenSpec => [](NumbersInv /\ Brought)
<1>1. ScreenInit => NumbersInv /\ Brought
  <2> SUFFICES ASSUME ScreenInit
               PROVE  NumbersInv /\ Brought
    OBVIOUS
  <2>1. loads \subseteq {Load(1, 1, TRUE)} /\ Load(1, 1, TRUE).n = 1
    BY DEF ScreenInit, Load
  <2>2. NumbersInv
    <3>1. newest = 0 /\ sent = 1 /\ saved = {} /\ \A l \in loads : l.n = 1
      BY <2>1 DEF ScreenInit
    <3> QED  BY <3>1 DEF NumbersInv
  <2>3. saved = {} /\ (screen.lists = TRUE => loads # {})
    BY DEF ScreenInit
  <2> QED  BY <2>2, <2>3 DEF Brought, Done
<1>2. RowsInv /\ NumbersInv /\ Brought /\ [ScreenNext]_screenVars => (NumbersInv /\ Brought)'
  BY NumbersStep, BroughtStep DEF RowsInv
<1> QED  BY <1>1, <1>2, RowsInvariant, PTL DEF ScreenSpec

\* Once nothing is in flight, a page shows the list of what is selected with all
\* that its own controls have done, unless it was told of an error or answered
\* late, on any screen and for any number of calls.
THEOREM RowsSettle == ScreenSpec => []SettledRows
<1>1. Brought => SettledRows
  <2> SUFFICES ASSUME Brought, screen.lists, mounted, loads = {}, writes = {}, ~late
               PROVE  rows.of = key /\ Done(key) \ lost \subseteq rows.seen
    BY DEF SettledRows
  <2>1. \A n : Settled(n)
    BY DEF Settled
  <2> QED  BY <2>1 DEF Brought
<1> QED  BY <1>1, BroughtInvariant, PTL

-----------------------------------------------------------------------------
(* The stage. *)

\* Type correctness.

LEMMA InitType == StageInit => StageTypeOK
<1> SUFFICES ASSUME StageInit PROVE StageTypeOK
  OBVIOUS
<1>1. clock \in [on : BOOLEAN, last : 0..now, timer : BOOLEAN, org : BOOLEAN] /\ now \in 0..MaxTime
  BY StageAssumption DEF StageInit, Stopped
<1>2. attempt \in [Attempts -> {"unused", "token", "connect", "mic", "details", "done"}]
      /\ room \in [Attempts -> {"none", "connecting", "connected", "resuming", "closing", "closed"}]
      /\ billed \in [1..MaxTime -> Nat]
  BY DEF StageInit
<1> QED  BY <1>1, <1>2 DEF StageInit, StageTypeOK

LEMMA FlushType ==
    ASSUME StageTypeOK, NEW final \in BOOLEAN, FlushSessionUsage(final), now' = now
    PROVE  clock' \in [on : BOOLEAN, last : 0..now, timer : BOOLEAN, org : BOOLEAN]
           /\ posts' \subseteq [from : Nat, to : Nat]
<1>1. CASE ~Due  BY <1>1 DEF FlushSessionUsage, StageTypeOK
<1>2. CASE Due
  <2>1. clock' = IF final THEN Stopped ELSE [on |-> clock.on, last |-> now, timer |-> clock.timer, org |-> clock.org]
    BY <1>2 DEF FlushSessionUsage, StageTypeOK
  <2>2. posts' = posts \cup {[from |-> clock.last + 1, to |-> now]}
    BY <1>2 DEF FlushSessionUsage, Record
  <2> QED  BY <2>1, <2>2, StageAssumption DEF StageTypeOK, Stopped
<1> QED  BY <1>1, <1>2

LEMMA StepType == StageTypeOK /\ [StageNext]_stageVars => StageTypeOK'
<1> SUFFICES ASSUME StageTypeOK, [StageNext]_stageVars PROVE StageTypeOK'
  OBVIOUS
<1> USE StageAssumption DEF StageTypeOK
<1>1. ASSUME NEW i \in Attempts,
             JoinClick(i) \/ ManualReconnect(i) \/ TabVisible(i) \/ RetryFires(i)
      PROVE  StageTypeOK'
  <2>1. CASE JoinClick(i)        BY <2>1 DEF JoinClick, Call, NoRoom, clockVars
  <2>2. CASE ManualReconnect(i)  BY <2>2 DEF ManualReconnect, Call, Disconnect, NoRoom, clockVars
  <2>3. CASE TabVisible(i)       BY <2>3 DEF TabVisible, Call, Disconnect, NoRoom, clockVars
  <2>4. CASE RetryFires(i)       BY <2>4 DEF RetryFires, Call, NoRoom, clockVars
  <2> QED  BY <1>1, <2>1, <2>2, <2>3, <2>4
<1>2. ASSUME NEW i \in Attempts,
             TokenArrives(i) \/ MicAnswered(i) \/ DetailsArrive(i) \/ ConnectFails(i)
      PROVE  StageTypeOK'
  <2>1. CASE TokenArrives(i)   BY <2>1 DEF TokenArrives, Running, clockVars
  <2>2. CASE MicAnswered(i)    BY <2>2 DEF MicAnswered, clockVars
  <2>3. CASE DetailsArrive(i)  BY <2>3 DEF DetailsArrive, clockVars
  <2>4. CASE ConnectFails(i)   BY <2>4 DEF ConnectFails, clockVars
  <2> QED  BY <1>2, <2>1, <2>2, <2>3, <2>4
<1>3. ASSUME NEW i \in Attempts, Connects(i) PROVE StageTypeOK'
  <2>1. PICK o \in OrgSeen : clock' = [on |-> TRUE, last |-> now, timer |-> o, org |-> o]
    BY <1>3 DEF Connects
  <2>2. o \in BOOLEAN
    BY <2>1 DEF OrgSeen
  <2>3. amiss' \subseteq amiss \cup {"anew", "unpaid"}
    BY <1>3 DEF Connects
  <2> QED  BY <1>3, <2>1, <2>2, <2>3 DEF Connects
<1>4. ASSUME NEW i \in Attempts, Drops(i) \/ StateMismatch(i) \/ Reconnecting(i) \/ Reconnected(i)
      PROVE  StageTypeOK'
  <2>1. CASE Drops(i)          BY <2>1 DEF Drops, Disconnected, NoRoom, Stale, clockVars
  <2>2. CASE StateMismatch(i)  BY <2>2 DEF StateMismatch, Disconnected, NoRoom, Stale, clockVars
  <2>3. CASE Reconnecting(i)   BY <2>3 DEF Reconnecting, Stale, clockVars
  <2>4. CASE Reconnected(i)    BY <2>4 DEF Reconnected, Stale, clockVars
  <2> QED  BY <1>4, <2>1, <2>2, <2>3, <2>4
<1>5. ASSUME NEW i \in Attempts, SessionEnded(i) PROVE StageTypeOK'
  BY <1>5, FlushType DEF SessionEnded, Disconnect, Stale, NoRoom
<1>6. CASE RetrySkipped  BY <1>6 DEF RetrySkipped, clockVars
<1>7. CASE Tick
  <2>1. clock \in [on : BOOLEAN, last : 0..now', timer : BOOLEAN, org : BOOLEAN]
    BY <1>7 DEF Tick
  <2> QED  BY <1>7, <2>1 DEF Tick, connectVars, clockVars
<1>8. CASE UsageTimer  BY <1>8, FlushType DEF UsageTimer, connectVars
<1>9. CASE LeaveClick  BY <1>9, FlushType DEF LeaveClick, connectVars
<1>10. CASE LeavePage
  <2>1. clock' = [on |-> clock.on, last |-> clock.last, timer |-> FALSE, org |-> clock.org]
    BY <1>10 DEF LeavePage
  <2> QED  BY <1>10, <2>1 DEF LeavePage, Disconnect, NoRoom
<1>11. ASSUME NEW p \in posts, RecordUsage(p) \/ RecordFails(p) PROVE StageTypeOK'
  <2>1. CASE RecordUsage(p)
    <3>1. billed' \in [1..MaxTime -> Nat]
      BY <2>1 DEF RecordUsage
    <3> QED  BY <2>1, <3>1 DEF RecordUsage, connectVars
  <2>2. CASE RecordFails(p)
    BY <2>2 DEF RecordFails, connectVars
  <2> QED  BY <1>11, <2>1, <2>2
<1>12. CASE UNCHANGED stageVars  BY <1>12 DEF stageVars, connectVars, clockVars
<1>13. CASE OrgArrives  BY <1>13 DEF OrgArrives, connectVars, clockVars
<1> QED
  BY <1>1, <1>2, <1>3, <1>4, <1>5, <1>6, <1>7, <1>8, <1>9, <1>10, <1>11, <1>12, <1>13 DEF StageNext

\* The page, its attempts and its clock hold what the code gives them.
THEOREM TypeCorrect == StageSpec => []StageTypeOK
BY InitType, StepType, PTL DEF StageSpec

-----------------------------------------------------------------------------
\* Billing.

ClockType ==
    /\ clock \in [on : BOOLEAN, last : Nat, timer : BOOLEAN, org : BOOLEAN] /\ now \in Nat /\ clock.last <= now
    /\ posts \subseteq [from : Nat, to : Nat] /\ billed \in [1..MaxTime -> Nat]

\* The time up to which the session has been flushed.
Flushed == IF clock.on THEN clock.last ELSE now

Covers(p, t) == p.from <= t /\ t <= p.to

SentBefore == \A p \in posts : p.to <= Flushed
SentApart == \A p, q \in posts : \A t \in Nat : Covers(p, t) /\ Covers(q, t) => p = q
BilledBefore ==
    \A t \in 1..MaxTime : billed[t] # 0 =>
        billed[t] = 1 /\ t <= Flushed /\ \A p \in posts : ~Covers(p, t)

IInv == ClockType /\ SentBefore /\ SentApart /\ BilledBefore

LEMMA InitInv == StageInit => IInv
BY StageAssumption DEF StageInit, IInv, ClockType, SentBefore, SentApart, BilledBefore, Stopped

\* Nothing that concerns the records changes: time may pass, the clock start
\* anew, a record be lost, its timer stop.
LEMMA LaterInv ==
    ASSUME IInv, ClockType', Flushed <= Flushed', posts' \subseteq posts, billed' = billed
    PROVE  IInv'
<1>1. Flushed \in Nat /\ Flushed' \in Nat  BY DEF IInv, ClockType, Flushed
<1>2. SentBefore'  BY <1>1 DEF IInv, ClockType, SentBefore
<1>3. SentApart'  BY DEF IInv, SentApart
<1>4. BilledBefore'
  <2> SUFFICES ASSUME NEW t \in 1..MaxTime, billed[t] # 0
               PROVE  billed[t] = 1 /\ t <= Flushed' /\ \A p \in posts' : ~Covers(p, t)
    BY DEF BilledBefore, Covers
  <2>1. billed[t] = 1 /\ t <= Flushed /\ \A p \in posts : ~Covers(p, t)
    BY DEF IInv, BilledBefore
  <2> QED  BY <2>1, <1>1, StageAssumption
<1> QED  BY <1>2, <1>3, <1>4 DEF IInv

LEMMA SameClock ==
    ASSUME IInv, UNCHANGED <<clockVars, now>>
    PROVE  IInv'
BY DEF clockVars, IInv, ClockType, SentBefore, SentApart, BilledBefore, Flushed, Covers

\* A flush sends what follows all that was flushed.
LEMMA FlushInv ==
    ASSUME IInv, NEW final \in BOOLEAN, FlushSessionUsage(final), UNCHANGED <<billed, now>>
    PROVE  IInv'
<1>1. CASE ~Due
  <2>1. UNCHANGED <<posts, clock>>  BY <1>1 DEF FlushSessionUsage
  <2> QED  BY <2>1, SameClock DEF clockVars
<1>2. CASE Due
  <2>1. /\ posts' = posts \cup {Record}
        /\ clock' = IF final THEN Stopped ELSE [clock EXCEPT !.last = now]
    BY <1>2 DEF FlushSessionUsage
  <2>2. /\ Record \in [from : Nat, to : Nat] /\ Record.from = clock.last + 1 /\ Record.to = now
        /\ Flushed = clock.last /\ clock.last \in Nat /\ now \in Nat /\ clock.last < now /\ clock.on
    BY <1>2 DEF Due, Record, Flushed, IInv, ClockType
  <2>3. ClockType' /\ Flushed' = now
    BY <2>1, <2>2 DEF IInv, ClockType, Flushed, Stopped
  <2>4. SentBefore'
    BY <2>1, <2>2, <2>3 DEF IInv, SentBefore, ClockType
  <2>5. SentApart'
    <3> SUFFICES ASSUME NEW p \in posts', NEW q \in posts', NEW t \in Nat, Covers(p, t), Covers(q, t)
                 PROVE  p = q
      BY DEF SentApart, Covers
    <3>1. CASE p \in posts /\ q \in posts  BY <3>1 DEF IInv, SentApart
    <3>2. \A r \in posts : ~(Covers(r, t) /\ Covers(Record, t))
      BY <2>2 DEF IInv, SentBefore, Covers, ClockType
    <3> QED  BY <3>1, <3>2, <2>1
  <2>6. BilledBefore'
    <3> SUFFICES ASSUME NEW t \in 1..MaxTime, billed[t] # 0
                 PROVE  billed[t] = 1 /\ t <= Flushed' /\ \A p \in posts' : ~Covers(p, t)
      BY DEF BilledBefore, Covers
    <3>1. billed[t] = 1 /\ t <= Flushed /\ \A p \in posts : ~Covers(p, t)
      BY DEF IInv, BilledBefore
    <3>2. ~Covers(Record, t)  BY <3>1, <2>2, StageAssumption DEF Covers
    <3> QED  BY <3>1, <3>2, <2>1, <2>2, <2>3, StageAssumption
  <2> QED  BY <2>3, <2>4, <2>5, <2>6 DEF IInv
<1> QED  BY <1>1, <1>2

\* A record is taken once: no other sent covers a tick of it.
LEMMA RecordInv ==
    ASSUME IInv, NEW p \in posts, RecordUsage(p)
    PROVE  IInv'
<1>1. /\ posts' = posts \ {p} /\ UNCHANGED <<clock, now>>
      /\ billed' = [t \in 1..MaxTime |-> IF t \in p.from..p.to THEN billed[t] + 1 ELSE billed[t]]
  BY DEF RecordUsage, IInv, ClockType
<1>2. p \in [from : Nat, to : Nat] /\ Flushed \in Nat /\ p.to <= Flushed
  BY DEF IInv, ClockType, SentBefore, Flushed
<1>3. ClockType'  BY <1>1 DEF IInv, ClockType
<1>4. Flushed' = Flushed  BY <1>1 DEF Flushed
<1>5. SentBefore' /\ SentApart'  BY <1>1, <1>4 DEF IInv, SentBefore, SentApart
<1>6. BilledBefore'
  <2> SUFFICES ASSUME NEW t \in 1..MaxTime, billed'[t] # 0
               PROVE  billed'[t] = 1 /\ t <= Flushed /\ \A q \in posts' : ~Covers(q, t)
    BY <1>4 DEF BilledBefore, Covers
  <2>0. t \in Nat  BY StageAssumption
  <2>1. CASE Covers(p, t)
    <3>1. billed[t] = 0  BY <2>1 DEF IInv, BilledBefore
    <3>2. billed'[t] = 1  BY <3>1, <2>0, <2>1, <1>1, <1>2 DEF Covers
    <3>3. \A q \in posts' : ~Covers(q, t)  BY <2>0, <2>1, <1>1 DEF IInv, SentApart
    <3> QED  BY <3>2, <3>3, <2>0, <2>1, <1>2 DEF Covers
  <2>2. CASE ~Covers(p, t)
    <3>1. billed'[t] = billed[t]  BY <2>0, <2>2, <1>1, <1>2 DEF Covers
    <3> QED  BY <3>1, <1>1 DEF IInv, BilledBefore
  <2> QED  BY <2>1, <2>2
<1> QED  BY <1>3, <1>5, <1>6 DEF IInv

LEMMA StepInv == IInv /\ [StageNext]_stageVars => IInv'
<1> SUFFICES ASSUME IInv, [StageNext]_stageVars PROVE IInv'
  OBVIOUS
<1>1. ASSUME NEW i \in Attempts,
             \/ JoinClick(i) \/ ManualReconnect(i) \/ TabVisible(i) \/ RetryFires(i)
             \/ TokenArrives(i) \/ MicAnswered(i) \/ DetailsArrive(i) \/ ConnectFails(i)
             \/ Drops(i) \/ StateMismatch(i) \/ Reconnecting(i) \/ Reconnected(i)
      PROVE  IInv'
  <2>1. UNCHANGED <<clockVars, now>>
    BY <1>1 DEF JoinClick, ManualReconnect, TabVisible, RetryFires, TokenArrives, MicAnswered,
                DetailsArrive, ConnectFails, Drops, StateMismatch, Reconnecting, Reconnected, clockVars
  <2> QED  BY <2>1, SameClock
<1>2. ASSUME NEW i \in Attempts, Connects(i) PROVE IInv'
  <2>1. /\ UNCHANGED <<posts, billed, now>>
        /\ \E o \in BOOLEAN : clock' = [on |-> TRUE, last |-> now, timer |-> o, org |-> o]
    BY <1>2 DEF Connects, OrgSeen
  <2>2. ClockType' /\ Flushed <= Flushed'  BY <2>1 DEF IInv, ClockType, Flushed
  <2> QED  BY <2>1, <2>2, LaterInv
<1>3. ASSUME NEW i \in Attempts, SessionEnded(i) PROVE IInv'
  BY <1>3, FlushInv DEF SessionEnded
<1>4. CASE RetrySkipped  BY <1>4, SameClock DEF RetrySkipped
<1>5. CASE Tick
  <2>1. now' = now + 1 /\ UNCHANGED <<clock, posts, billed>>  BY <1>5 DEF Tick, clockVars
  <2>2. ClockType' /\ Flushed <= Flushed'  BY <2>1 DEF IInv, ClockType, Flushed
  <2> QED  BY <2>1, <2>2, LaterInv
<1>6. CASE UsageTimer  BY <1>6, FlushInv DEF UsageTimer
<1>7. CASE LeaveClick  BY <1>7, FlushInv DEF LeaveClick
<1>8. CASE LeavePage
  <2>1. clock' = [on |-> clock.on, last |-> clock.last, timer |-> FALSE, org |-> clock.org]
        /\ UNCHANGED <<posts, billed, now>>
    BY <1>8 DEF LeavePage, IInv, ClockType
  <2>2. ClockType' /\ Flushed <= Flushed'
    BY <2>1 DEF IInv, ClockType, Flushed
  <2> QED  BY <2>1, <2>2, LaterInv
<1>9. ASSUME NEW p \in posts, RecordUsage(p) PROVE IInv'  BY <1>9, RecordInv
<1>10. ASSUME NEW p \in posts, RecordFails(p) PROVE IInv'
  <2>1. posts' = posts \ {p} /\ UNCHANGED <<clock, billed, now>>  BY <1>10 DEF RecordFails
  <2>2. ClockType' /\ Flushed <= Flushed'  BY <2>1 DEF IInv, ClockType, Flushed
  <2> QED  BY <2>1, <2>2, LaterInv
<1>11. CASE UNCHANGED stageVars  BY <1>11, SameClock DEF stageVars
<1>12. CASE OrgArrives  BY <1>12, SameClock DEF OrgArrives
<1> QED
  BY <1>1, <1>2, <1>3, <1>4, <1>5, <1>6, <1>7, <1>8, <1>9, <1>10, <1>11, <1>12 DEF StageNext

\* All that is sent or recorded of a session lies before its last flush, and
\* apart from all else that is (Stage.jsx 1038-1058).
THEOREM Invariant == StageSpec => []IInv
BY InitInv, StepInv, PTL DEF StageSpec

\* No tick of a session is recorded twice: not by the timer and the leave
\* button, by overlapping attempts to connect, nor by a late answer.
THEOREM RecordedOnce == StageSpec => []BilledOnce
<1>1. IInv => BilledOnce  BY DEF IInv, ClockType, BilledBefore, BilledOnce
<1> QED  BY <1>1, Invariant, PTL

-----------------------------------------------------------------------------
\* The rooms of the page.

Opening(i) == attempt[i] \in {"token", "connect"}

\* On the page one call of connectToRoom is under way at a time, as
\* connectingRef says.
OneCall ==
    ~Left => /\ \A i \in Attempts : Running(i) => connecting
             /\ \A i, j \in Attempts : Running(i) /\ Running(j) => i = j

\* A connected room is the one roomRef holds, a call that is still opening one
\* is alone with no room beside it, and so is the first screen.
OneHeld ==
    "two" \notin amiss =>
        /\ \A i \in Attempts : Alive(i) => i = current
        /\ \A i \in Attempts : Opening(i) =>
             /\ \A j \in Attempts : ~Alive(j)
             /\ \A j \in Attempts : Opening(j) => i = j
        /\ shown \in {"idle", "error"} => \A i \in Attempts : ~Alive(i)
        /\ \A i \in Attempts : attempt[i] = "connect" /\ room[i] = "connecting" => i = current

\* A page that was left in order has nothing that could still connect.
LeftDone ==
    Left /\ "left" \notin amiss =>
        /\ ~retry /\ ~clock.timer
        /\ \A i \in Attempts : ~Running(i) /\ ~Alive(i)

\* The spinner is that of a call which has not connected, of a retry, or of a
\* room that LiveKit resumes.
SpinnerHas ==
    "stuck" \notin amiss =>
        /\ shown = "connecting" => \E i \in Attempts : Opening(i)
        /\ shown = "reconnecting" =>
             retry \/ \E i \in Attempts : Opening(i) \/ room[i] = "resuming"

\* What is two for OneHeld leaves something behind for LeftDone.
TwoLeaves == "two" \in amiss => "left" \in amiss

RoomInv == OneCall /\ OneHeld /\ LeftDone /\ SpinnerHas /\ TwoLeaves

\* What was live is recorded, on its way, or to be flushed by a clock that runs
\* as long as a room is connected and nobody has left.
LiveInv ==
    amiss = {} =>
        /\ (\E i \in Attempts : Alive(i)) => clock.on \/ leaving = "button"
        /\ \A t \in live :
             /\ t <= now
             /\ \/ billed[t] > 0
                \/ \E p \in posts : Covers(p, t)
                \/ leaving # "button" /\ clock.on /\ clock.last < t

LEMMA InitRoom == StageInit => RoomInv /\ LiveInv
BY DEF StageInit, RoomInv, OneCall, OneHeld, LeftDone, SpinnerHas, TwoLeaves, LiveInv, Running,
       Alive, Opening, Left

\* Closing the room that roomRef holds leaves the others as they are.
LEMMA DisconnectRooms ==
    ASSUME StageTypeOK, NEW j \in Attempts
    PROVE  LET r == Disconnect(current)[j] IN
             /\ r \in {"connected", "resuming"} => Alive(j) /\ j # current
             /\ r \in {"resuming", "connecting"} => r = room[j] /\ j # current
             /\ j # current => r = room[j]
BY DEF StageTypeOK, Disconnect, NoRoom, Alive, Attempts

\* A call begins with the room that was held closed, and none other open.
LEMMA CallRoom ==
    ASSUME StageTypeOK, RoomInv, NEW i \in Attempts, UNCHANGED <<retry, leaving, clockVars, amiss>>,
           ~connecting, ~Left,
           \/ JoinClick(i) \/ ManualReconnect(i) \/ TabVisible(i)
    PROVE  RoomInv'
<1>1. /\ attempt' = [attempt EXCEPT ![i] = "token"] /\ attempt[i] = "unused"
      /\ connecting' = TRUE /\ shown' = "connecting"
  BY DEF JoinClick, ManualReconnect, TabVisible, Call
<1>2. \A j \in Attempts : ~Running(j)
  BY DEF RoomInv, OneCall
<1>3. /\ \A j \in Attempts : j # i => attempt'[j] = attempt[j] /\ attempt[j] \in {"unused", "done"}
      /\ attempt'[i] = "token"
  BY <1>1, <1>2 DEF StageTypeOK, Running
<1>4. "two" \notin amiss => \A j \in Attempts : ~Alive(j)'
  <2>1. CASE JoinClick(i)
    BY <2>1 DEF JoinClick, Call, RoomInv, OneHeld, Alive, Left
  <2>2. CASE ManualReconnect(i) \/ TabVisible(i)
    <3>1. room' = Disconnect(current)
      BY <2>2 DEF ManualReconnect, TabVisible, Call
    <3> QED  BY <3>1, DisconnectRooms DEF RoomInv, OneHeld, Alive
  <2> QED  BY <2>1, <2>2
<1>5. OneCall'  BY <1>1, <1>3 DEF OneCall, Running
<1>6. OneHeld'  BY <1>1, <1>3, <1>4 DEF OneHeld, Opening
<1>7. LeftDone' BY <1>1 DEF LeftDone, Left
<1>8. SpinnerHas'  BY <1>1, <1>3 DEF SpinnerHas, Opening
<1> QED  BY <1>5, <1>6, <1>7, <1>8 DEF RoomInv, TwoLeaves

\* What leaves the attempts, the timers and what goes amiss alone, but may
\* close rooms.
LEMMA CloseRoom ==
    ASSUME StageTypeOK, RoomInv, UNCHANGED <<attempt, connecting, current, retry>>,
           amiss \subseteq amiss', TwoLeaves',
           clock'.timer => clock.timer,
           \A j \in Attempts : Alive(j)' => Alive(j),
           \A j \in Attempts : room'[j] = "connecting" => room[j] = "connecting",
           Left' = Left, shown' \in {"idle", "error"} => shown' = shown,
           "stuck" \notin amiss' /\ shown' \in {"connecting", "reconnecting"} =>
             shown' = shown /\ \A j \in Attempts : room[j] = "resuming" => room'[j] = "resuming"
    PROVE  RoomInv'
<1>1. OneCall'  BY DEF RoomInv, OneCall, Running
<1>2. OneHeld'  BY DEF RoomInv, OneHeld, Opening, Alive
<1>3. LeftDone'  BY DEF RoomInv, LeftDone, Running, Alive, Left
<1>4. SpinnerHas'  BY DEF RoomInv, SpinnerHas, Opening
<1> QED  BY <1>1, <1>2, <1>3, <1>4 DEF RoomInv

\* An attempt that moves on from opening, or gives up; its room and the timer go
\* along.
LEMMA StepRoom == StageTypeOK /\ RoomInv /\ [StageNext]_stageVars => RoomInv'
<1> SUFFICES ASSUME StageTypeOK, RoomInv, [StageNext]_stageVars PROVE RoomInv'
  OBVIOUS
<1>1. ASSUME NEW i \in Attempts, JoinClick(i) \/ ManualReconnect(i) \/ TabVisible(i)
      PROVE  RoomInv'
  <2>1. ~connecting /\ ~Left /\ UNCHANGED <<retry, leaving, clockVars, amiss>>
    BY <1>1 DEF JoinClick, ManualReconnect, TabVisible, Left
  <2> QED  BY <1>1, <2>1, CallRoom
<1>2. ASSUME NEW i \in Attempts, RetryFires(i) PROVE RoomInv'
  <2>1. /\ attempt'[i] = "token" /\ \A j \in Attempts : j # i => attempt'[j] = attempt[j]
        /\ connecting' /\ retry /\ ~connecting
        /\ shown' = IF Left THEN shown ELSE "connecting"
        /\ UNCHANGED <<current, room, clock>> /\ amiss \subseteq amiss'
        /\ Left => "left" \in amiss'
        /\ (\E j \in Attempts : Alive(j) \/ Opening(j)) => {"two", "left"} \subseteq amiss'
        /\ "two" \in amiss' => "two" \in amiss \/ "left" \in amiss'
    BY <1>2 DEF RetryFires, StageTypeOK, Opening, clockVars
  <2>2. Left' = Left  BY <2>1 DEF Left
  <2>3. OneCall'  BY <2>1, <2>2 DEF RoomInv, OneCall, Running
  <2>4. OneHeld'  BY <2>1 DEF OneHeld, Opening, Alive
  <2>5. LeftDone'  BY <2>1, <2>2 DEF LeftDone
  <2>6. SpinnerHas'  BY <2>1 DEF RoomInv, SpinnerHas, Opening, Left
  <2>7. TwoLeaves'  BY <2>1 DEF RoomInv, TwoLeaves
  <2> QED  BY <2>3, <2>4, <2>5, <2>6, <2>7 DEF RoomInv
<1>3. ASSUME NEW i \in Attempts, TokenArrives(i) PROVE RoomInv'
  <2>1. /\ attempt[i] = "token" /\ attempt'[i] = "connect" /\ room'[i] = "connecting" /\ current' = i
        /\ \A j \in Attempts : j # i => attempt'[j] = attempt[j] /\ room'[j] = room[j]
        /\ UNCHANGED <<shown, connecting, retry, clock, amiss>>
    BY <1>3 DEF TokenArrives, StageTypeOK, clockVars
  <2>2. OneCall'  BY <2>1 DEF RoomInv, OneCall, Running, Left
  <2>3. OneHeld'  BY <2>1 DEF RoomInv, OneHeld, Opening, Alive
  <2>4. LeftDone'  BY <2>1 DEF RoomInv, LeftDone, Running, Alive, Left
  <2>5. SpinnerHas'  BY <2>1 DEF RoomInv, SpinnerHas, Opening
  <2> QED  BY <2>1, <2>2, <2>3, <2>4, <2>5 DEF RoomInv, TwoLeaves
<1>4. ASSUME NEW i \in Attempts, Connects(i) PROVE RoomInv'
  <2>1. /\ attempt[i] = "connect" /\ attempt'[i] = "mic" /\ room[i] = "connecting"
        /\ \A j \in Attempts : j # i => attempt'[j] = attempt[j] /\ room'[j] = room[j]
        /\ shown' = IF Left THEN shown ELSE "connected"
        /\ UNCHANGED <<connecting, current, retry>>
        /\ \A a \in {"two", "left", "stuck"} : a \in amiss' <=> a \in amiss
    BY <1>4 DEF Connects, StageTypeOK
  <2>2. OneCall'  BY <2>1 DEF RoomInv, OneCall, Running, Left
  <2>3. OneHeld'  BY <2>1 DEF RoomInv, OneHeld, Opening, Alive, Left
  <2>4. LeftDone'  BY <2>1 DEF RoomInv, LeftDone, Running, Left
  <2>5. SpinnerHas'  BY <2>1 DEF RoomInv, SpinnerHas, Left
  <2> QED  BY <2>1, <2>2, <2>3, <2>4, <2>5 DEF RoomInv, TwoLeaves
<1>5. ASSUME NEW i \in Attempts, MicAnswered(i) \/ DetailsArrive(i) PROVE RoomInv'
  <2>1. /\ ~Opening(i) /\ Running(i) /\ attempt'[i] \in {"details", "done"}
        /\ \A j \in Attempts : j # i => attempt'[j] = attempt[j]
        /\ UNCHANGED <<shown, room, current, retry, clock, amiss>>
        /\ connecting' = connecting \/ attempt'[i] = "done"
    BY <1>5 DEF MicAnswered, DetailsArrive, StageTypeOK, clockVars, Opening, Running
  <2>2. OneCall'  BY <2>1 DEF RoomInv, OneCall, Running, Left
  <2>3. OneHeld'  BY <2>1 DEF RoomInv, OneHeld, Opening, Alive
  <2>4. LeftDone'  BY <2>1 DEF RoomInv, LeftDone, Running, Alive, Left
  <2>5. SpinnerHas'  BY <2>1 DEF RoomInv, SpinnerHas, Opening
  <2> QED  BY <2>1, <2>2, <2>3, <2>4, <2>5 DEF RoomInv, TwoLeaves
<1>6. ASSUME NEW i \in Attempts, ConnectFails(i) PROVE RoomInv'
  <2>1. /\ Running(i) /\ attempt'[i] = "done"
        /\ \A j \in Attempts : j # i => attempt'[j] = attempt[j] /\ room'[j] = room[j]
        /\ room'[i] \in {room[i], "closed"}
        /\ shown' = IF Left THEN shown ELSE "error"
        /\ UNCHANGED <<current, retry, clock>>
        /\ Opening(i) \/ {"two", "left"} \subseteq amiss'
        /\ amiss \subseteq amiss' /\ TwoLeaves'
    BY <1>6 DEF ConnectFails, StageTypeOK, clockVars, Opening, Running, RoomInv, TwoLeaves
  <2>2. OneCall'  BY <2>1 DEF RoomInv, OneCall, Running, Left
  <2>3. OneHeld'  BY <2>1 DEF RoomInv, OneHeld, Opening, Alive
  <2>4. LeftDone'  BY <2>1 DEF RoomInv, LeftDone, Running, Alive, Left
  <2>5. SpinnerHas'  BY <2>1 DEF RoomInv, SpinnerHas, Opening, Left
  <2> QED  BY <2>1, <2>2, <2>3, <2>4, <2>5 DEF RoomInv
<1>7. ASSUME NEW i \in Attempts, Drops(i) \/ Reconnected(i) PROVE RoomInv'
  <2>1. /\ \A j \in Attempts : j # i => room'[j] = room[j]
        /\ Alive(i)' => Alive(i)
        /\ room'[i] # "connecting"
        /\ UNCHANGED <<attempt, connecting, current, retry, clock>>
        /\ amiss \subseteq amiss'
        /\ Left' = Left /\ shown' \in {shown, "connected", "disconnected"}
        /\ Left \/ shown' \in {"connected", "disconnected"}
    BY <1>7 DEF Drops, Reconnected, Disconnected, Alive, StageTypeOK, clockVars, Left
  <2>2. TwoLeaves'
    BY <1>7 DEF Drops, Reconnected, Disconnected, Stale, RoomInv, TwoLeaves
  <2>3. \A j \in Attempts : Alive(j)' => Alive(j)
    BY <2>1 DEF Alive
  <2> QED  BY <2>1, <2>2, <2>3, CloseRoom DEF Left
<1>8. ASSUME NEW i \in Attempts, Reconnecting(i) PROVE RoomInv'
  <2>1. /\ \A j \in Attempts : j # i => room'[j] = room[j]
        /\ room'[i] = "resuming" /\ room[i] = "connected"
        /\ UNCHANGED <<attempt, connecting, current, retry, clock>>
        /\ amiss \subseteq amiss'
        /\ shown' = IF Left THEN shown ELSE "reconnecting"
    BY <1>8 DEF Reconnecting, StageTypeOK, clockVars
  <2>2. TwoLeaves'
    BY <1>8 DEF Reconnecting, Stale, RoomInv, TwoLeaves
  <2>3. \A j \in Attempts : Alive(j)' <=> Alive(j)
    BY <2>1 DEF Alive
  <2>4. OneCall'  BY <2>1 DEF RoomInv, OneCall, Running, Left
  <2>5. OneHeld'  BY <2>1, <2>3 DEF RoomInv, OneHeld, Opening, Alive, Left
  <2>6. LeftDone'  BY <2>1, <2>3 DEF RoomInv, LeftDone, Running, Alive, Left
  <2>7. SpinnerHas'  BY <2>1 DEF SpinnerHas, Left
  <2> QED  BY <2>2, <2>4, <2>5, <2>6, <2>7 DEF RoomInv
<1>9. ASSUME NEW i \in Attempts, StateMismatch(i) PROVE RoomInv'
  <2>1. /\ \A j \in Attempts : j # i => room'[j] = room[j]
        /\ room'[i] = "closed" /\ Alive(i) /\ retry' /\ current' = NoRoom
        /\ UNCHANGED <<attempt, connecting, clock>>
        /\ amiss' = amiss \cup Stale(i)
        /\ shown' = IF Left THEN shown ELSE "reconnecting"
    BY <1>9 DEF StateMismatch, Disconnected, StageTypeOK, clockVars
  <2>2. TwoLeaves'
    BY <2>1 DEF Stale, RoomInv, TwoLeaves
  <2>3. \A j \in Attempts : Alive(j)' => Alive(j) /\ j # i
    BY <2>1 DEF Alive
  <2>4. "two" \notin amiss' => \A j \in Attempts : ~Alive(j)' /\ ~Opening(j)
    BY <2>1, <2>3 DEF RoomInv, OneHeld
  <2>5. OneCall'  BY <2>1 DEF RoomInv, OneCall, Running, Left
  <2>6. OneHeld'  BY <2>1, <2>4 DEF OneHeld, Opening, Alive
  <2>7. LeftDone'  BY <2>1 DEF RoomInv, LeftDone, Left
  <2>8. SpinnerHas'  BY <2>1 DEF SpinnerHas, Left
  <2> QED  BY <2>2, <2>5, <2>6, <2>7, <2>8 DEF RoomInv
<1>10. ASSUME NEW i \in Attempts, SessionEnded(i) PROVE RoomInv'
  <2>1. /\ room' = Disconnect(current) /\ shown' = "disconnected" /\ ~Left
        /\ UNCHANGED <<attempt, connecting, current, retry>>
        /\ amiss' = amiss \cup Stale(i)
    BY <1>10 DEF SessionEnded
  <2>2. TwoLeaves'
    BY <2>1 DEF Stale, RoomInv, TwoLeaves
  <2>3. /\ \A j \in Attempts : Alive(j)' => Alive(j)
        /\ \A j \in Attempts : room'[j] = "connecting" => room[j] = "connecting"
    BY <2>1, DisconnectRooms DEF Alive
  <2>4. clock'.timer => clock.timer
    BY <1>10 DEF SessionEnded, FlushSessionUsage, Stopped, StageTypeOK
  <2> QED  BY <2>1, <2>2, <2>3, <2>4, CloseRoom DEF Left
<1>11. CASE RetrySkipped
  <2>1. /\ UNCHANGED <<shown, connecting, current, attempt, room, clock>> /\ ~retry'
        /\ amiss' = amiss \cup {"stuck"}
    BY <1>11 DEF RetrySkipped, clockVars
  <2>2. OneCall'  BY <2>1 DEF RoomInv, OneCall, Running, Left
  <2>3. OneHeld'  BY <2>1 DEF RoomInv, OneHeld, Opening, Alive
  <2>4. LeftDone'  BY <2>1 DEF RoomInv, LeftDone, Running, Alive, Left
  <2>5. SpinnerHas'  BY <2>1 DEF SpinnerHas
  <2>6. TwoLeaves'  BY <2>1 DEF RoomInv, TwoLeaves
  <2> QED  BY <2>2, <2>3, <2>4, <2>5, <2>6 DEF RoomInv
<1>12. CASE OrgArrives \/ Tick \/ UsageTimer \/ LeaveClick
              \/ (\E p \in posts : RecordUsage(p) \/ RecordFails(p)) \/ UNCHANGED stageVars
  <2>1. /\ UNCHANGED <<shown, connecting, current, attempt, room, retry>>
        /\ clock'.timer => clock.timer
        /\ amiss \subseteq amiss' /\ TwoLeaves'
    BY <1>12 DEF OrgArrives, Tick, UsageTimer, LeaveClick, RecordUsage, RecordFails, stageVars, connectVars,
       clockVars, FlushSessionUsage, Stopped, StageTypeOK, RoomInv, TwoLeaves
  <2>2. \A j \in Attempts : Alive(j)' => Alive(j)
    BY <2>1 DEF Alive
  <2>3. Left' = Left  BY <2>1 DEF Left
  <2>4. shown' = shown /\ room' = room  BY <2>1
  <2> QED  BY <2>1, <2>2, <2>3, <2>4, CloseRoom
<1>13. CASE LeavePage
  <2>1. /\ room' = Disconnect(current) /\ shown' = "gone" /\ ~Left /\ current' = NoRoom
        /\ ~clock'.timer /\ UNCHANGED <<attempt, retry>> /\ amiss \subseteq amiss'
        /\ "left" \notin amiss' => ~InProgress /\ ~retry
        /\ "two" \in amiss' => "two" \in amiss
    BY <1>13 DEF LeavePage, StageTypeOK
  <2>2. TwoLeaves'  BY <2>1 DEF RoomInv, TwoLeaves
  <2>3. "two" \notin amiss' => \A j \in Attempts : ~Alive(j)'
    BY <2>1, DisconnectRooms DEF Alive, RoomInv, OneHeld
  <2>4. \A j \in Attempts : room'[j] = "connecting" => room[j] = "connecting" /\ j # current
    BY <2>1, DisconnectRooms
  <2>5. OneCall' /\ SpinnerHas'  BY <2>1 DEF OneCall, SpinnerHas, Left
  <2>6. OneHeld'  BY <2>1, <2>3, <2>4 DEF RoomInv, OneHeld, Opening, Alive
  <2>7. LeftDone'
    BY <2>1, <2>2, <2>3 DEF LeftDone, TwoLeaves, InProgress, Running, Alive
  <2> QED  BY <2>2, <2>5, <2>6, <2>7 DEF RoomInv
<1> QED
  BY <1>1, <1>2, <1>3, <1>4, <1>5, <1>6, <1>7, <1>8, <1>9, <1>10, <1>11, <1>12, <1>13 DEF StageNext

\* The page and its rooms agree (Stage.jsx 1480-2040, 2255-2280).
THEOREM PageMatches == StageSpec => []PageMatchesRooms
<1>1. StageTypeOK /\ RoomInv => PageMatchesRooms
  <2> SUFFICES ASSUME StageTypeOK, RoomInv PROVE PageMatchesRooms
    OBVIOUS
  <2>1. OneRoom
    <3> SUFFICES ASSUME "two" \notin amiss PROVE Cardinality({i \in Attempts : Alive(i)}) <= 1
      BY DEF OneRoom
    <3>1. {i \in Attempts : Alive(i)} \subseteq {current}
      BY DEF RoomInv, OneHeld
    <3>2. Cardinality({current}) = 1 /\ IsFiniteSet({current})
      BY FS_Singleton
    <3>3. /\ Cardinality({i \in Attempts : Alive(i)}) <= Cardinality({current})
      BY <3>1, <3>2, FS_Subset
    <3> QED  BY <3>2, <3>3
  <2>2. LeftIsSilent  BY DEF RoomInv, LeftDone, LeftIsSilent
  <2>3. SpinnerEnds
    BY DEF RoomInv, SpinnerHas, SpinnerEnds, InProgress, Running, Opening
  <2> QED  BY <2>1, <2>2, <2>3 DEF PageMatchesRooms
<1> QED  BY <1>1, InitRoom, StepRoom, TypeCorrect, PTL DEF StageSpec

-----------------------------------------------------------------------------
\* What was live is recorded.

\* A clock that runs has an organization, or the page connected without.
ClockPaid == clock.on /\ "unpaid" \notin amiss => clock.org

LiveKnown == IInv /\ StageTypeOK /\ RoomInv /\ LiveInv /\ ClockPaid

LEMMA StepPaid == StageTypeOK /\ ClockPaid /\ [StageNext]_stageVars => ClockPaid'
<1> SUFFICES ASSUME StageTypeOK, ClockPaid, [StageNext]_stageVars PROVE ClockPaid'
  OBVIOUS
<1>1. ASSUME amiss \subseteq amiss', clock'.on => clock.on, clock'.org = clock.org \/ ~clock'.on
      PROVE  ClockPaid'
  BY <1>1 DEF ClockPaid
<1>2. ASSUME NEW i \in Attempts,
             \/ JoinClick(i) \/ ManualReconnect(i) \/ TabVisible(i) \/ RetryFires(i)
             \/ TokenArrives(i) \/ MicAnswered(i) \/ DetailsArrive(i) \/ ConnectFails(i)
             \/ Drops(i) \/ StateMismatch(i) \/ Reconnecting(i) \/ Reconnected(i)
      PROVE  ClockPaid'
  <2>1. clock' = clock /\ amiss \subseteq amiss'
    BY <1>2 DEF JoinClick, ManualReconnect, TabVisible, RetryFires, TokenArrives, MicAnswered,
       DetailsArrive, ConnectFails, Drops, StateMismatch, Reconnecting, Reconnected, Disconnected, clockVars
  <2> QED  BY <1>1, <2>1
<1>3. ASSUME NEW i \in Attempts, Connects(i) PROVE ClockPaid'
  <2>1. PICK o \in OrgSeen : /\ clock' = [on |-> TRUE, last |-> now, timer |-> o, org |-> o]
                             /\ "unpaid" \notin amiss' => o
    BY <1>3 DEF Connects
  <2> QED  BY <2>1 DEF ClockPaid
<1>4. ASSUME NEW final \in BOOLEAN, FlushSessionUsage(final), amiss \subseteq amiss' PROVE ClockPaid'
  <2>1. clock'.on => clock.on /\ clock'.org = clock.org
    BY <1>4 DEF FlushSessionUsage, Stopped, StageTypeOK
  <2> QED  BY <1>1, <1>4, <2>1 DEF ClockPaid
<1>5. ASSUME NEW i \in Attempts, SessionEnded(i) PROVE ClockPaid'
  BY <1>4, <1>5 DEF SessionEnded
<1>6. CASE UsageTimer \/ LeaveClick
  BY <1>4, <1>6 DEF UsageTimer, LeaveClick
<1>7. CASE LeavePage
  <2>1. clock'.on = clock.on /\ clock'.org = clock.org /\ amiss \subseteq amiss'
    BY <1>7 DEF LeavePage, StageTypeOK
  <2> QED  BY <1>1, <2>1
<1>8. CASE RetrySkipped \/ OrgArrives \/ Tick \/ (\E p \in posts : RecordUsage(p) \/ RecordFails(p))
           \/ UNCHANGED stageVars
  <2>1. clock' = clock /\ amiss \subseteq amiss'
    BY <1>8 DEF RetrySkipped, OrgArrives, Tick, RecordUsage, RecordFails, stageVars, clockVars
  <2> QED  BY <1>1, <2>1
<1> QED  BY <1>2, <1>3, <1>5, <1>6, <1>7, <1>8 DEF StageNext

\* What neither connects a room nor touches clock and records.
LEMMA LiveFrame ==
    ASSUME LiveKnown, UNCHANGED <<clock, posts, billed, now, live>>, leaving = "button" => leaving' = "button",
           leaving' = "button" => leaving = "button",
           amiss' = {} => amiss = {},
           \A j \in Attempts : Alive(j)' => Alive(j)
    PROVE  LiveInv'
<1>1. \A j \in Attempts : Alive(j)' => Alive(j)  OBVIOUS
<1> SUFFICES ASSUME amiss' = {}
             PROVE  /\ (\E i \in Attempts : Alive(i)') => clock'.on \/ leaving' = "button"
                    /\ \A t \in live' :
                         /\ t <= now'
                         /\ \/ billed'[t] > 0
                            \/ \E p \in posts' : Covers(p, t)
                            \/ leaving' # "button" /\ clock'.on /\ clock'.last < t
  BY DEF LiveInv, Covers
<1> QED  BY <1>1 DEF LiveKnown, LiveInv

\* A flush puts all that was live on its way.
LEMMA LiveFlush ==
    ASSUME LiveKnown, NEW final \in BOOLEAN, FlushSessionUsage(final), amiss = {},
           NEW t \in live
    PROVE  \/ billed[t] > 0
           \/ \E p \in posts' : Covers(p, t)
<1>1. t <= now /\ t \in Nat /\ now \in Nat
  BY StageAssumption DEF LiveKnown, LiveInv, StageTypeOK
<1>2. \/ billed[t] > 0
      \/ \E p \in posts : Covers(p, t)
      \/ clock.on /\ clock.last < t
  BY DEF LiveKnown, LiveInv
<1>3. posts \subseteq posts'  BY DEF FlushSessionUsage
<1>4. ASSUME clock.on, clock.last < t PROVE \E p \in posts' : Covers(p, t)
  <2>1. clock.last \in Nat /\ Due
    BY <1>1, <1>4 DEF LiveKnown, ClockPaid, IInv, ClockType, Due
  <2>2. Record \in posts' /\ Record.from = clock.last + 1 /\ Record.to = now
    BY <2>1 DEF FlushSessionUsage, Record
  <2>3. Covers(Record, t)  BY <1>1, <1>4, <2>1, <2>2 DEF Covers
  <2> QED  BY <2>2, <2>3
<1> QED  BY <1>2, <1>3, <1>4

LEMMA StepLive == LiveKnown /\ [StageNext]_stageVars => LiveInv'
<1> SUFFICES ASSUME LiveKnown, [StageNext]_stageVars, amiss' = {}
             PROVE  /\ (\E i \in Attempts : Alive(i)') => clock'.on \/ leaving' = "button"
                    /\ \A t \in live' :
                         /\ t <= now'
                         /\ \/ billed'[t] > 0
                            \/ \E p \in posts' : Covers(p, t)
                            \/ leaving' # "button" /\ clock'.on /\ clock'.last < t
  BY DEF LiveInv, Covers
<1> DEFINE Kept == /\ (\E i \in Attempts : Alive(i)') => clock'.on \/ leaving' = "button"
                   /\ \A t \in live' :
                        /\ t <= now'
                        /\ \/ billed'[t] > 0
                           \/ \E p \in posts' : Covers(p, t)
                           \/ leaving' # "button" /\ clock'.on /\ clock'.last < t
<1> USE StageAssumption
<1>1. ASSUME NEW i \in Attempts,
             \/ JoinClick(i) \/ ManualReconnect(i) \/ TabVisible(i) \/ RetryFires(i)
             \/ TokenArrives(i) \/ MicAnswered(i) \/ DetailsArrive(i) \/ ConnectFails(i)
             \/ Drops(i) \/ StateMismatch(i) \/ Reconnecting(i) \/ Reconnected(i)
      PROVE  Kept
  <2>1. UNCHANGED <<clock, posts, billed, now, live, leaving>> /\ amiss \subseteq amiss'
    BY <1>1 DEF JoinClick, ManualReconnect, TabVisible, RetryFires, TokenArrives, MicAnswered,
       DetailsArrive, ConnectFails, Drops, StateMismatch, Reconnecting, Reconnected, Disconnected, clockVars
  <2>2. \A j \in Attempts : Alive(j)' => Alive(j)
    <3>1. CASE ManualReconnect(i) \/ TabVisible(i)
      <4>1. room' = Disconnect(current)
        BY <3>1 DEF ManualReconnect, TabVisible, Call
      <4> QED  BY <4>1, DisconnectRooms DEF Alive, LiveKnown
    <3>2. CASE ~(ManualReconnect(i) \/ TabVisible(i))
      BY <1>1, <3>2 DEF JoinClick, Call, RetryFires, TokenArrives, MicAnswered, DetailsArrive,
         ConnectFails, Drops, StateMismatch, Reconnecting, Reconnected, Disconnected, Alive,
         LiveKnown, StageTypeOK
    <3> QED  BY <3>1, <3>2
  <2>3. amiss = {}  BY <2>1
  <2>4. LiveInv'  BY <2>1, <2>2, <2>3, LiveFrame
  <2> QED  BY <2>4 DEF LiveInv, Covers
<1>2. ASSUME NEW i \in Attempts, Connects(i) PROVE Kept
  <2>1. /\ \E o \in OrgSeen : clock' = [on |-> TRUE, last |-> now, timer |-> o, org |-> o]
        /\ UNCHANGED <<leaving, posts, billed, now, live>> /\ amiss = {}
        /\ ~(clock.on /\ clock.last < now)
    BY <1>2 DEF Connects
  <2>2. \A t \in live : t <= now /\ ~(clock.on /\ clock.last < t)
    BY <2>1 DEF LiveKnown, LiveInv, StageTypeOK
  <2> QED  BY <2>1, <2>2 DEF LiveKnown, LiveInv
<1>3. ASSUME NEW i \in Attempts, SessionEnded(i) PROVE Kept
  <2>1. /\ amiss = {} /\ Stale(i) = {} /\ room' = Disconnect(current) /\ room[i] = "connected"
        /\ FlushSessionUsage(TRUE) /\ UNCHANGED <<billed, now, live>>
    BY <1>3 DEF SessionEnded
  <2>2. \A j \in Attempts : ~Alive(j)'
    BY <2>1, DisconnectRooms DEF LiveKnown, RoomInv, OneHeld, Alive
  <2> QED  BY <2>1, <2>2, LiveFlush DEF LiveKnown, LiveInv
<1>4. CASE RetrySkipped \/ OrgArrives \/ LeavePage \/ UNCHANGED stageVars
  <2>1. /\ UNCHANGED <<leaving, posts, billed, now, live>> /\ amiss = {}
        /\ clock'.on = clock.on /\ clock'.last = clock.last
    BY <1>4 DEF RetrySkipped, OrgArrives, LeavePage, stageVars, clockVars, connectVars, LiveKnown, StageTypeOK
  <2>2. \A j \in Attempts : Alive(j)' => Alive(j)
    <3>1. CASE LeavePage
      BY <3>1, DisconnectRooms DEF LeavePage, Alive, LiveKnown
    <3> QED  BY <1>4, <3>1 DEF RetrySkipped, OrgArrives, stageVars, connectVars, Alive
  <2> QED  BY <2>1, <2>2 DEF LiveKnown, LiveInv
<1>5. CASE Tick
  <2>1. /\ now' = now + 1 /\ now \in Nat /\ amiss = {}
        /\ UNCHANGED <<room, leaving, clock, posts, billed>>
        /\ live' = IF leaving # "button" /\ \E i \in Attempts : room[i] = "connected"
                   THEN live \cup {now + 1} ELSE live
    BY <1>5 DEF Tick, connectVars, clockVars, LiveKnown, StageTypeOK
  <2>2. \A j \in Attempts : Alive(j)' = Alive(j)
    BY <2>1 DEF Alive
  <2>3. ASSUME NEW t \in live'
        PROVE  /\ t <= now'
               /\ \/ billed'[t] > 0
                  \/ \E p \in posts' : Covers(p, t)
                  \/ leaving' # "button" /\ clock'.on /\ clock'.last < t
    <3>1. CASE t \in live
      BY <2>1, <3>1 DEF LiveKnown, LiveInv, StageTypeOK
    <3>2. CASE t \notin live
      <4>1. t = now + 1 /\ leaving # "button" /\ \E j \in Attempts : Alive(j)
        BY <2>1, <3>2 DEF Alive
      <4>2. clock.on /\ clock.last <= now /\ clock.last \in Nat
        BY <2>1, <4>1 DEF LiveKnown, LiveInv, IInv, ClockType
      <4> QED  BY <2>1, <4>1, <4>2
    <3> QED  BY <3>1, <3>2
  <2> QED  BY <2>1, <2>2, <2>3 DEF LiveKnown, LiveInv
<1>6. CASE UsageTimer
  <2>1. /\ FlushSessionUsage(FALSE) /\ UNCHANGED <<room, leaving, billed, now, live>> /\ amiss = {}
        /\ clock'.on = clock.on
    BY <1>6 DEF UsageTimer, FlushSessionUsage, connectVars, LiveKnown, StageTypeOK
  <2>2. \A j \in Attempts : Alive(j)' = Alive(j)
    BY <2>1 DEF Alive
  <2> QED  BY <2>1, <2>2, LiveFlush DEF LiveKnown, LiveInv
<1>7. CASE LeaveClick
  <2>1. /\ FlushSessionUsage(TRUE) /\ UNCHANGED <<room, billed, now, live>> /\ amiss = {}
        /\ leaving' = "button"
    BY <1>7 DEF LeaveClick, connectVars
  <2> QED  BY <2>1, LiveFlush DEF LiveKnown, LiveInv
<1>8. ASSUME NEW p \in posts, RecordUsage(p) PROVE Kept
  <2>1. /\ posts' = posts \ {p} /\ UNCHANGED <<room, leaving, clock, now, live, amiss>>
        /\ billed' = [t \in 1..MaxTime |-> IF t \in p.from..p.to THEN billed[t] + 1 ELSE billed[t]]
    BY <1>8 DEF RecordUsage, connectVars, LiveKnown, StageTypeOK
  <2>2. p.from \in Nat /\ p.to \in Nat
    BY DEF LiveKnown, StageTypeOK
  <2>3. ASSUME NEW t \in live
        PROVE  \/ billed'[t] > 0
               \/ \E q \in posts' : Covers(q, t)
               \/ leaving # "button" /\ clock.on /\ clock.last < t
    <3>1. t \in 1..MaxTime /\ t \in Nat /\ billed[t] \in Nat
      BY DEF LiveKnown, StageTypeOK
    <3>2. CASE Covers(p, t)
      <4>1. billed'[t] = billed[t] + 1
        BY <2>1, <2>2, <3>1, <3>2 DEF Covers
      <4> QED  BY <3>1, <4>1
    <3>3. CASE ~Covers(p, t)
      <4>1. billed'[t] = billed[t]
        BY <2>1, <2>2, <3>1, <3>3 DEF Covers
      <4> QED  BY <2>1, <3>3, <4>1 DEF LiveKnown, LiveInv
    <3> QED  BY <3>2, <3>3
  <2>4. \A j \in Attempts : Alive(j)' = Alive(j)
    BY <2>1 DEF Alive
  <2> QED  BY <2>1, <2>3, <2>4 DEF LiveKnown, LiveInv
<1>9. ASSUME NEW p \in posts, RecordFails(p) PROVE Kept
  BY <1>9 DEF RecordFails
<1> QED
  BY <1>1, <1>2, <1>3, <1>4, <1>5, <1>6, <1>7, <1>8, <1>9 DEF StageNext

\* Stage.jsx 1038-1058 and 2561-2573: a session left by its button is recorded
\* as far as a room was connected, unless the clock was restarted, a record lost
\* on the way, or the page connected before it had the user's organization.
THEOREM LiveRecorded == StageSpec => []LiveIsBilled
<1>1. LiveKnown => LiveIsBilled
  BY DEF LiveKnown, LiveInv, LiveIsBilled
<1>2. LiveKnown /\ [StageNext]_stageVars => LiveKnown'
  BY StepInv, StepType, StepRoom, StepLive, StepPaid DEF LiveKnown
<1>3. StageInit => ClockPaid
  BY DEF StageInit, Stopped, ClockPaid
<1> QED  BY <1>1, <1>2, <1>3, InitInv, InitType, InitRoom, PTL DEF StageSpec, LiveKnown

-----------------------------------------------------------------------------
(* The captions of Talk Together. *)

\* The caption buffer counts as the message before the first of the line.
Places == 0..Len(line)
KindAt(i) == IF i = 0 THEN "caption_delta" ELSE line[i].type
CaptionAt(i) ==
    IF i = 0 THEN captionBuf
    ELSE IF line[i].type \in {"caption_delta", "turn_done"} THEN line[i].text ELSE {}

\* Between place i and place j a turn ends, or the buffers are cleared.
EndsTurn(i, j) == \E k \in i..(j - 1) : KindAt(k) = "turn_done"
ClearsBuffer(i, j) == \E k \in i..(j - 1) : KindAt(k) \in {"turn_done", "speech_started"}
LineEnd == Len(line) + 1

\* The turns whose response may still say something.
Ahead(t) ==
    \/ t = answering \/ t > turn \/ (speaking /\ t = turn)
    \/ \E k \in 1..Len(waiting) : waiting[k] = t

TurnQueue ==
    /\ turnCaption \subseteq {answering} /\ answering <= turn
    /\ speaking => answering < turn /\ turn \in Turns
    /\ \A k \in 1..Len(waiting) :
         answering < waiting[k] /\ waiting[k] <= turn /\ (speaking => waiting[k] < turn)
    /\ \A k, l \in 1..Len(waiting) : k < l => waiting[k] < waiting[l]

OneTurnEach == \A i \in Places : \A a, b \in CaptionAt(i) : a = b

LineInOrder ==
    \A i, j \in Places : i < j =>
        \A a \in CaptionAt(i), b \in CaptionAt(j) :
            /\ a <= b
            /\ EndsTurn(i, j) => a < b
            /\ a < b /\ KindAt(j) = "caption_delta" => ClearsBuffer(i, j)

ShownBefore ==
    \A n \in 1..Len(transcripts) :
        /\ \E t \in Turns : transcripts[n].translated = {t}
        /\ \A a \in transcripts[n].translated :
             /\ \A i \in Places : \A b \in CaptionAt(i) : a < b
             /\ \A m \in 1..Len(transcripts) : n < m => \A b \in transcripts[m].translated : a < b

AheadIsLater ==
    \A t \in Turns : Ahead(t) =>
        /\ \A n \in 1..Len(transcripts) : \A a \in transcripts[n].translated : a < t
        /\ \A i \in Places : \A b \in CaptionAt(i) :
             /\ b <= t
             /\ t # answering \/ EndsTurn(i, LineEnd) => b < t

LeftOpen ==
    \A i \in Places : \A b \in CaptionAt(i) :
        ~ClearsBuffer(i, LineEnd) => b = answering \/ (answering = 0 /\ waiting = <<>> /\ ~speaking)

CaptionsInv ==
    TypeOK /\ TurnQueue /\ OneTurnEach /\ LineInOrder /\ ShownBefore /\ AheadIsLater /\ LeftOpen

-----------------------------------------------------------------------------
\* Places of the line, before and after a step.

LEMMA LineFacts ==
    ASSUME TypeOK
    PROVE  /\ Len(line) \in Nat /\ LineEnd \in Nat /\ Places \subseteq Nat
           /\ \A i \in 1..Len(line) : line[i] \in Messages
           /\ \A i \in Places : CaptionAt(i) \subseteq Turns
           /\ Turns \subseteq Nat /\ 0 \notin Turns
<1>1. Len(line) \in Nat /\ \A i \in 1..Len(line) : line[i] \in Messages
  BY LenProperties, ElementOfSeq DEF TypeOK
<1>2. \A i \in Places : CaptionAt(i) \subseteq Turns
  BY <1>1 DEF Places, CaptionAt, TypeOK, Messages
<1> QED  BY <1>1, <1>2 DEF LineEnd, Places, Turns

\* Messages that join the line leave what was there as it was.
LEMMA JoinedLine ==
    ASSUME TypeOK, NEW ms \in Seq(Messages), line' = line \o ms, UNCHANGED captionBuf,
           NEW n, n = LineEnd
    PROVE  /\ Len(line') = Len(line) + Len(ms) /\ Len(line') \in Nat
           /\ \A i \in Places : KindAt(i)' = KindAt(i) /\ CaptionAt(i)' = CaptionAt(i)
           /\ \A k \in 1..Len(ms) : line'[Len(line) + k] = ms[k]
           /\ \A i \in Places, j \in 0..n :
                (EndsTurn(i, j)' <=> EndsTurn(i, j)) /\ (ClearsBuffer(i, j)' <=> ClearsBuffer(i, j))
<1>1. /\ Len(line) \in Nat /\ Len(ms) \in Nat /\ Len(line') = Len(line) + Len(ms)
      /\ \A i \in 1..(Len(line) + Len(ms)) : line'[i] = IF i <= Len(line) THEN line[i] ELSE ms[i - Len(line)]
  BY LenProperties, ConcatProperties DEF TypeOK
<1>2. \A i \in Places : KindAt(i)' = KindAt(i) /\ CaptionAt(i)' = CaptionAt(i)
  BY <1>1 DEF Places, KindAt, CaptionAt
<1>3. \A k \in 1..Len(ms) : line'[Len(line) + k] = ms[k]
  BY <1>1
<1>4. ASSUME NEW i \in Places, NEW j \in 0..n
      PROVE  (EndsTurn(i, j)' <=> EndsTurn(i, j)) /\ (ClearsBuffer(i, j)' <=> ClearsBuffer(i, j))
  <2>1. \A k \in i..(j - 1) : k \in Places
    BY <1>1 DEF Places, LineEnd
  <2>2. \A k \in i..(j - 1) : KindAt(k)' = KindAt(k)
    BY <1>2, <2>1
  <2> QED  BY <2>2 DEF EndsTurn, ClearsBuffer
<1> QED  BY <1>1, <1>2, <1>3, <1>4

\* The last message that joins speaks of a turn that is not before any other's.
LEMMA LineGrows ==
    ASSUME TypeOK, OneTurnEach, LineInOrder, ShownBefore, UNCHANGED transcripts,
           NEW n, n = LineEnd, NEW N, N = Len(line'), N \in Nat, n <= N,
           \A i \in Places : KindAt(i)' = KindAt(i) /\ CaptionAt(i)' = CaptionAt(i),
           \A i \in Places, j \in 0..n :
             (EndsTurn(i, j)' <=> EndsTurn(i, j)) /\ (ClearsBuffer(i, j)' <=> ClearsBuffer(i, j)),
           \A j \in n..(N - 1) : CaptionAt(j)' = {},
           \A a, b \in CaptionAt(N)' : a = b,
           \A i \in Places : \A a \in CaptionAt(i), b \in CaptionAt(N)' :
             /\ a <= b
             /\ EndsTurn(i, N)' => a < b
             /\ a < b /\ KindAt(N)' = "caption_delta" => ClearsBuffer(i, N)',
           \A k \in 1..Len(transcripts) : \A a \in transcripts[k].translated : \A b \in CaptionAt(N)' : a < b
    PROVE  OneTurnEach' /\ LineInOrder' /\ ShownBefore'
<1>1. Len(line) \in Nat /\ n \in Nat /\ n = Len(line) + 1 /\ Places = 0..(n - 1)
  BY LineFacts DEF LineEnd, Places
<1>2. Places' = 0..N
  BY DEF Places
<1>3. \A i \in Places' : i \in Places \/ CaptionAt(i)' = {} \/ i = N
  BY <1>1, <1>2
<1>4. OneTurnEach'
  BY <1>3 DEF OneTurnEach
<1>5. LineInOrder'
  <2> SUFFICES ASSUME NEW i \in Places', NEW j \in Places', i < j,
                      NEW a \in CaptionAt(i)', NEW b \in CaptionAt(j)'
               PROVE  /\ a <= b
                      /\ EndsTurn(i, j)' => a < b
                      /\ a < b /\ KindAt(j)' = "caption_delta" => ClearsBuffer(i, j)'
    BY DEF LineInOrder
  <2>1. i \in Places
    BY <1>1, <1>2, <1>3
  <2>2. CASE j \in Places
    <3>1. j \in 0..n /\ a \in CaptionAt(i) /\ b \in CaptionAt(j) /\ KindAt(j)' = KindAt(j)
      BY <1>1, <2>1, <2>2
    <3>2. (EndsTurn(i, j)' <=> EndsTurn(i, j)) /\ (ClearsBuffer(i, j)' <=> ClearsBuffer(i, j))
      BY <2>1, <3>1
    <3> QED  BY <2>1, <2>2, <3>1, <3>2 DEF LineInOrder
  <2>3. CASE j = N
    BY <2>1, <2>3
  <2> QED  BY <1>3, <2>2, <2>3
<1>6. ShownBefore'
  <2>1. \A k \in 1..Len(transcripts) : \A a \in transcripts[k].translated :
          \A i \in Places' : \A b \in CaptionAt(i)' : a < b
    BY <1>3 DEF ShownBefore
  <2> QED  BY <2>1 DEF ShownBefore
<1> QED  BY <1>4, <1>5, <1>6

\* One message joins.
LEMMA OneJoins ==
    ASSUME TypeOK, NEW m \in Messages, Forward(<<m>>), UNCHANGED captionBuf, NEW n, n = LineEnd
    PROVE  /\ line' \in Seq(Messages) /\ Len(line') = n /\ n \in Nat /\ Places' = Places \cup {n}
           /\ KindAt(n)' = m.type
           /\ CaptionAt(n)' = IF m.type \in {"caption_delta", "turn_done"} THEN m.text ELSE {}
           /\ \A i \in Places : KindAt(i)' = KindAt(i) /\ CaptionAt(i)' = CaptionAt(i)
           /\ \A i \in Places, j \in 0..n :
                (EndsTurn(i, j)' <=> EndsTurn(i, j)) /\ (ClearsBuffer(i, j)' <=> ClearsBuffer(i, j))
           /\ \A i \in Places' : EndsTurn(i, LineEnd)' <=> (i \in Places /\ EndsTurn(i, n)) \/ m.type = "turn_done"
           /\ \A i \in Places' : ClearsBuffer(i, LineEnd)' <=>
                (i \in Places /\ ClearsBuffer(i, n)) \/ m.type \in {"turn_done", "speech_started"}
<1>1. /\ <<m>> \in Seq(Messages) /\ Len(<<m>>) = 1 /\ <<m>>[1] = m /\ line' = line \o <<m>>
  BY DEF Forward
<1>2. /\ Len(line) \in Nat /\ Len(line') = Len(line) + 1 /\ line' \in Seq(Messages)
      /\ \A i \in Places : KindAt(i)' = KindAt(i) /\ CaptionAt(i)' = CaptionAt(i)
      /\ line'[Len(line) + 1] = m
      /\ \A i \in Places, j \in 0..n :
                (EndsTurn(i, j)' <=> EndsTurn(i, j)) /\ (ClearsBuffer(i, j)' <=> ClearsBuffer(i, j))
  <2>1. line' \in Seq(Messages)
    BY <1>1, ConcatProperties DEF TypeOK
  <2>2. /\ Len(line') = Len(line) + 1
        /\ \A k \in 1..1 : line'[Len(line) + k] = <<m>>[k]
        /\ \A i \in Places : KindAt(i)' = KindAt(i) /\ CaptionAt(i)' = CaptionAt(i)
        /\ \A i \in Places, j \in 0..n :
             (EndsTurn(i, j)' <=> EndsTurn(i, j)) /\ (ClearsBuffer(i, j)' <=> ClearsBuffer(i, j))
    BY <1>1, JoinedLine
  <2>3. line'[Len(line) + 1] = m
    BY <1>1, <2>2
  <2> QED  BY <2>1, <2>2, <2>3, LineFacts
<1>3. n = Len(line) + 1 /\ n \in Nat /\ n # 0 /\ LineEnd' = n + 1 /\ Places = 0..(n - 1) /\ Places' = 0..n
  BY <1>2 DEF LineEnd, Places
<1>4. KindAt(n)' = m.type /\ CaptionAt(n)' = IF m.type \in {"caption_delta", "turn_done"} THEN m.text ELSE {}
  BY <1>2, <1>3 DEF KindAt, CaptionAt
<1>5. \A i \in Places' : EndsTurn(i, LineEnd)' <=> \E k \in i..n : KindAt(k)' = "turn_done"
  BY <1>3 DEF EndsTurn
<1>6. \A i \in Places' : ClearsBuffer(i, LineEnd)' <=> \E k \in i..n : KindAt(k)' \in {"turn_done", "speech_started"}
  BY <1>3 DEF ClearsBuffer
<1>7. \A i \in Places' : EndsTurn(i, LineEnd)' <=> (i \in Places /\ EndsTurn(i, n)) \/ m.type = "turn_done"
  BY <1>2, <1>3, <1>4, <1>5 DEF EndsTurn
<1>8. \A i \in Places' : ClearsBuffer(i, LineEnd)' <=>
         (i \in Places /\ ClearsBuffer(i, n)) \/ m.type \in {"turn_done", "speech_started"}
  BY <1>2, <1>3, <1>4, <1>6 DEF ClearsBuffer
<1> QED  BY <1>2, <1>3, <1>4, <1>7, <1>8

-----------------------------------------------------------------------------
\* Each step keeps the types.

LEMMA MessagesJoin ==
    ASSUME TypeOK, NEW ms \in Seq(Messages), Forward(ms)
    PROVE  line' \in Seq(Messages)
BY ConcatProperties DEF Forward, TypeOK

LEMMA MsgType ==
    ASSUME NEW type \in {"speech_started", "speech_delta", "speech_done", "caption_delta", "turn_done"},
           NEW text \in SUBSET Turns
    PROVE  /\ Msg(type, text) \in Messages /\ Msg(type, text).type = type /\ Msg(type, text).text = text
           /\ <<Msg(type, text)>> \in Seq(Messages)
BY DEF Msg, Messages

LEMMA TypeStep ==
    ASSUME TypeOK, TurnQueue, [Next]_vars
    PROVE  TypeOK'
<1> USE CaptionAssumption DEF openai, browser
<1>0. <<>> \in Seq(Turns) /\ <<>> \in Seq(Messages) /\ Turns \subseteq Nat /\ 0 \in 0..MaxTurns
  BY EmptySeq DEF Turns
<1>1. CASE SpeechStarted
  <2>1. turn' \in 0..MaxTurns
    BY <1>1 DEF SpeechStarted, TypeOK
  <2>2. answering' \in 0..MaxTurns /\ turnCaption' \subseteq Turns
    BY <1>0, <1>1 DEF SpeechStarted, TypeOK
  <2>3. line' \in Seq(Messages)
    <3>1. Msg("speech_started", {}) \in Messages /\ Msg("turn_done", turnCaption) \in Messages
      BY MsgType DEF TypeOK
    <3>2. /\ <<Msg("speech_started", {})>> \in Seq(Messages)
          /\ <<Msg("speech_started", {}), Msg("turn_done", turnCaption)>> \in Seq(Messages)
      BY <3>1
    <3> QED  BY <1>1, <3>2, MessagesJoin DEF SpeechStarted, Send
  <2> QED  BY <1>1, <2>1, <2>2, <2>3 DEF SpeechStarted, TypeOK
<1>2. CASE SpeechStopped
  <2>1. turn \in Turns /\ waiting' \in Seq(Turns)
    BY <1>2 DEF SpeechStopped, TypeOK, TurnQueue
  <2> QED  BY <1>2, <2>1 DEF SpeechStopped, TypeOK
<1>3. CASE ResponseStarts
  <2>1. answering' \in Turns /\ waiting' \in Seq(Turns)
    BY <1>3, HeadTailProperties DEF ResponseStarts, TypeOK
  <2>2. answering' \in 0..MaxTurns
    BY <2>1 DEF Turns
  <2> QED  BY <1>3, <2>1, <2>2 DEF ResponseStarts, TypeOK
<1>4. CASE CaptionDelta
  <2>1. answering \in Turns
    BY <1>4 DEF CaptionDelta, TypeOK, Turns
  <2>2. line' \in Seq(Messages)
    <3>1. <<Msg("caption_delta", {answering})>> \in Seq(Messages)
      BY <2>1, MsgType
    <3> QED  BY <1>4, <3>1, MessagesJoin DEF CaptionDelta, Send
  <2> QED  BY <1>4, <2>1, <2>2 DEF CaptionDelta, TypeOK
<1>5. CASE ResponseDone
  <2>1. line' \in Seq(Messages)
    BY <1>5, MsgType, MessagesJoin DEF ResponseDone, TypeOK, Send
  <2> QED  BY <1>0, <1>5, <2>1 DEF ResponseDone, TypeOK
<1>6. CASE OpenaiDrops
  <2>1. drops' \in 0..MaxDrops
    BY <1>6 DEF OpenaiDrops, TypeOK
  <2> QED  BY <1>0, <1>6, <2>1 DEF OpenaiDrops, TypeOK
<1>7. CASE \E t \in Turns : SpeechDelta(t) \/ SpeechCompleted(t)
  <2> PICK t \in Turns : SpeechDelta(t) \/ SpeechCompleted(t)
    BY <1>7
  <2>1. CASE Forward(<<Msg("speech_delta", {t})>>) \/ Forward(<<Msg("speech_done", {t})>>)
    <3>1. line' \in Seq(Messages)
      <4>1. <<Msg("speech_delta", {t})>> \in Seq(Messages) /\ <<Msg("speech_done", {t})>> \in Seq(Messages)
        BY MsgType
      <4> QED  BY <2>1, <4>1, MessagesJoin
    <3> QED  BY <3>1 DEF SpeechDelta, SpeechCompleted, TypeOK
  <2>2. CASE UNCHANGED line
    BY <2>2 DEF SpeechDelta, SpeechCompleted, TypeOK
  <2> QED  BY <2>1, <2>2 DEF SpeechDelta, SpeechCompleted, Send
<1>8. CASE Browser
  <2>1. CASE Reconnect
    <3>1. drops' \in 0..MaxDrops
      BY <2>1 DEF Reconnect, TypeOK
    <3> QED  BY <1>0, <2>1, <3>1 DEF Reconnect, TypeOK
  <2>2. CASE ~Reconnect
    <3>1. line # <<>> /\ line' = Tail(line) /\ UNCHANGED <<openai, turnCaption, drops>>
      BY <1>8, <2>2 DEF Browser, OnSpeechStarted, OnSpeechDelta, OnSpeechDone, OnCaptionDelta, OnTurnDone, Handle
    <3>2. Head(line) \in Messages /\ line' \in Seq(Messages)
      BY <3>1, HeadTailProperties DEF TypeOK
    <3>3. Text \subseteq Turns
      BY <3>2 DEF Messages, Text
    <3>4. captionBuf' \subseteq Turns /\ speechBuf' \subseteq Turns
      BY <1>8, <2>2, <3>3 DEF Browser, OnSpeechStarted, OnSpeechDelta, OnSpeechDone, OnCaptionDelta,
         OnTurnDone, TypeOK
    <3>5. transcripts' \in Seq([source : SUBSET Turns, translated : SUBSET Turns])
      <4>1. Full \subseteq Turns
        BY <3>3 DEF Full, TypeOK
      <4>2. [source |-> speechBuf, translated |-> Full] \in [source : SUBSET Turns, translated : SUBSET Turns]
        BY <4>1 DEF TypeOK
      <4>3. \/ UNCHANGED transcripts
            \/ transcripts' = Append(transcripts, [source |-> speechBuf, translated |-> Full])
        BY <1>8, <2>2 DEF Browser, OnSpeechStarted, OnSpeechDelta, OnSpeechDone, OnCaptionDelta, OnTurnDone
      <4>4. PICK Pairs : Pairs = [source : SUBSET Turns, translated : SUBSET Turns]
        OBVIOUS
      <4>5. transcripts \in Seq(Pairs) /\ (UNCHANGED transcripts \/ \E row \in Pairs : transcripts' = Append(transcripts, row))
        BY <4>2, <4>3, <4>4 DEF TypeOK
      <4>6. transcripts' \in Seq(Pairs)
        BY <4>5, AppendProperties
      <4> QED  BY <4>4, <4>6
    <3> QED  BY <3>1, <3>2, <3>4, <3>5 DEF TypeOK
  <2> QED  BY <2>1, <2>2
<1>9. CASE UNCHANGED vars
  BY <1>9 DEF vars, TypeOK
<1> QED  BY <1>1, <1>2, <1>3, <1>4, <1>5, <1>6, <1>7, <1>8, <1>9 DEF Next, OpenAI

LEMMA TurnQueueStep ==
    ASSUME TypeOK, TurnQueue, [Next]_vars
    PROVE  TurnQueue'
<1> USE CaptionAssumption DEF TurnQueue, TypeOK, openai
<1>0. /\ turn \in Nat /\ answering \in Nat /\ Len(waiting) \in Nat
      /\ \A k \in 1..Len(waiting) : waiting[k] \in Nat
  BY ElementOfSeq DEF Turns
<1>1. CASE SpeechStarted
  <2>1. turn' = turn + 1 /\ turn' \in Turns /\ UNCHANGED waiting
    BY <1>0, <1>1 DEF SpeechStarted, Turns
  <2>2. answering' \in {0, answering} /\ turnCaption' \subseteq {answering'}
    BY <1>1 DEF SpeechStarted
  <2> QED  BY <1>0, <2>1, <2>2
<1>2. CASE SpeechStopped
  <2>1. Len(waiting') = Len(waiting) + 1
    BY <1>2, AppendProperties DEF SpeechStopped
  <2>2. \A k \in 1..(Len(waiting) + 1) : waiting'[k] = IF k = Len(waiting) + 1 THEN turn ELSE waiting[k]
    BY <1>2, AppendProperties DEF SpeechStopped
  <2> QED  BY <1>0, <1>2, <2>1, <2>2 DEF SpeechStopped
<1>3. CASE ResponseStarts
  <2>1. /\ Len(waiting') = Len(waiting) - 1 /\ Len(waiting) >= 1 /\ answering' = waiting[1]
        /\ \A k \in 1..Len(waiting') : waiting'[k] = waiting[k + 1]
    BY <1>0, <1>3, HeadTailProperties, EmptySeq DEF ResponseStarts
  <2>2. \A k \in 1..Len(waiting') : k + 1 \in 1..Len(waiting)
    BY <1>0, <2>1
  <2>3. turnCaption = {} /\ 1 \in 1..Len(waiting)
    BY <1>0, <1>3, <2>1 DEF ResponseStarts, Turns
  <2>4. answering' <= turn /\ (speaking => answering' < turn)
    BY <1>0, <2>1, <2>3
  <2>5. \A k \in 1..Len(waiting') :
          answering' < waiting'[k] /\ waiting'[k] <= turn /\ (speaking => waiting'[k] < turn)
    <3> TAKE k \in 1..Len(waiting')
    <3>1. k + 1 \in 1..Len(waiting) /\ waiting'[k] = waiting[k + 1] /\ 1 < k + 1
      BY <1>0, <2>1, <2>2
    <3> QED  BY <2>1, <2>3, <3>1
  <2>6. \A k, l \in 1..Len(waiting') : k < l => waiting'[k] < waiting'[l]
    <3> TAKE k, l \in 1..Len(waiting')
    <3>1. k + 1 \in 1..Len(waiting) /\ waiting'[k] = waiting[k + 1]
      BY <2>1, <2>2
    <3>2. l + 1 \in 1..Len(waiting) /\ waiting'[l] = waiting[l + 1]
      BY <2>1, <2>2
    <3>3. k < l => k + 1 < l + 1
      BY <1>0, <2>1
    <3> QED  BY <3>1, <3>2, <3>3
  <2> QED  BY <1>3, <2>3, <2>4, <2>5, <2>6 DEF ResponseStarts
<1>4. CASE CaptionDelta
  BY <1>4 DEF CaptionDelta
<1>5. CASE ResponseDone
  BY <1>0, <1>5 DEF ResponseDone
<1>6. CASE OpenaiDrops
  BY <1>0, <1>6 DEF OpenaiDrops
<1>7. CASE \E t \in Turns : SpeechDelta(t) \/ SpeechCompleted(t)
  <2>1. UNCHANGED <<turn, speaking, answering, waiting, turnCaption>>
    BY <1>7 DEF SpeechDelta, SpeechCompleted
  <2> QED  BY <2>1
<1>8. CASE Browser
  <2>1. CASE Reconnect
    BY <1>0, <2>1 DEF Reconnect
  <2>2. CASE ~Reconnect
    <3>1. UNCHANGED <<openai, turnCaption>>
      BY <1>8, <2>2 DEF Browser, OnSpeechStarted, OnSpeechDelta, OnSpeechDone, OnCaptionDelta, OnTurnDone, Handle
    <3> QED  BY <3>1
  <2> QED  BY <2>1, <2>2
<1>9. CASE UNCHANGED vars
  BY <1>9 DEF vars
<1> QED  BY <1>1, <1>2, <1>3, <1>4, <1>5, <1>6, <1>7, <1>8, <1>9 DEF Next, OpenAI

-----------------------------------------------------------------------------
\* The steps of OpenAI and the relay.

LEMMA AheadAfter ==
    ASSUME TypeOK, TurnQueue, NEW t \in Turns, Ahead(t), t # answering
    PROVE  answering < t
BY DEF TypeOK, TurnQueue, Ahead, Turns

LEMMA SamePlaces ==
    ASSUME UNCHANGED <<line, captionBuf>>
    PROVE  /\ Places' = Places
           /\ \A i : KindAt(i)' = KindAt(i) /\ CaptionAt(i)' = CaptionAt(i)
           /\ \A i, j : (EndsTurn(i, j)' <=> EndsTurn(i, j)) /\ (ClearsBuffer(i, j)' <=> ClearsBuffer(i, j))
           /\ \A i : EndsTurn(i, LineEnd)' <=> EndsTurn(i, LineEnd)
           /\ \A i : ClearsBuffer(i, LineEnd)' <=> ClearsBuffer(i, LineEnd)
BY DEF Places, KindAt, CaptionAt, EndsTurn, ClearsBuffer, LineEnd

CaptionsStep == OneTurnEach /\ LineInOrder /\ ShownBefore /\ AheadIsLater /\ LeftOpen

\* A step that leaves the line and the browser alone.
LEMMA LineStays ==
    ASSUME CaptionsInv, UNCHANGED <<line, captionBuf, transcripts>>,
           \A t \in Turns : Ahead(t)' => Ahead(t),
           \A t \in Turns : Ahead(t)' /\ t # answering' => t # answering,
           \A i \in Places : \A b \in CaptionAt(i) : Ahead(answering') /\ answering' # answering /\ answering' \in Turns => b < answering',
           LeftOpen'
    PROVE  CaptionsStep'
<1>1. OneTurnEach'
  BY SamePlaces DEF CaptionsInv, OneTurnEach
<1>2. LineInOrder'
  BY SamePlaces DEF CaptionsInv, LineInOrder
<1>3. ShownBefore'
  BY SamePlaces DEF CaptionsInv, ShownBefore
<1>4. AheadIsLater'
  <2> SUFFICES ASSUME NEW t \in Turns, Ahead(t)'
               PROVE  /\ \A n \in 1..Len(transcripts) : \A a \in transcripts[n].translated : a < t
                      /\ \A i \in Places : \A b \in CaptionAt(i) :
                           b <= t /\ (t # answering' \/ EndsTurn(i, LineEnd) => b < t)
    BY SamePlaces DEF AheadIsLater
  <2> QED  BY DEF CaptionsInv, AheadIsLater
<1> QED  BY <1>1, <1>2, <1>3, <1>4 DEF CaptionsStep

LEMMA SpeechStoppedStep ==
    ASSUME CaptionsInv, SpeechStopped
    PROVE  CaptionsStep'
<1>1. /\ UNCHANGED <<line, captionBuf, transcripts, answering, turn>> /\ speaking /\ answering < turn
      /\ speaking' = FALSE
  BY DEF SpeechStopped, browser, CaptionsInv, TurnQueue
<1>2. \A t \in Turns : Ahead(t)' => Ahead(t)
  <2>1. /\ Len(waiting') = Len(waiting) + 1 /\ Len(waiting) \in Nat
        /\ \A k \in 1..(Len(waiting) + 1) : waiting'[k] = IF k = Len(waiting) + 1 THEN turn ELSE waiting[k]
    BY AppendProperties, LenProperties DEF SpeechStopped, CaptionsInv, TypeOK, TurnQueue
  <2> QED  BY <1>1, <2>1 DEF Ahead
<1>3. LeftOpen'
  BY <1>1, SamePlaces DEF CaptionsInv, LeftOpen
<1> QED  BY <1>1, <1>2, <1>3, LineStays

LEMMA ResponseStartsStep ==
    ASSUME CaptionsInv, ResponseStarts
    PROVE  CaptionsStep'
<1>1. /\ UNCHANGED <<line, captionBuf, transcripts, speaking, turn>> /\ answering = 0 /\ waiting # <<>>
  BY DEF ResponseStarts, browser
<1>2. /\ Len(waiting') = Len(waiting) - 1 /\ Len(waiting) \in Nat /\ Len(waiting) >= 1
      /\ answering' = waiting[1] /\ waiting[1] \in Turns
      /\ \A k \in 1..Len(waiting') : waiting'[k] = waiting[k + 1]
  BY HeadTailProperties, EmptySeq, LenProperties, ElementOfSeq DEF ResponseStarts, CaptionsInv, TypeOK
<1>3. \A k \in 1..Len(waiting') : k + 1 \in 1..Len(waiting)
  BY <1>2
<1>4. \A t \in Turns : Ahead(t)' => Ahead(t)
  BY <1>1, <1>2, <1>3 DEF Ahead
<1>5. \A t \in Turns : t # answering
  BY <1>1 DEF Turns
<1>6. \A i \in Places : \A b \in CaptionAt(i) : Ahead(answering') /\ answering' \in Turns => b < answering'
  <2>1. 1 \in 1..Len(waiting)
    BY <1>2
  <2> QED  BY <1>2, <1>5 DEF CaptionsInv, AheadIsLater
<1>7. LeftOpen'
  <2>1. \A i \in Places : CaptionAt(i) \subseteq Turns
    BY LineFacts DEF CaptionsInv
  <2>2. \A i \in Places : \A b \in CaptionAt(i) : ClearsBuffer(i, LineEnd)
    BY <1>1, <1>5, <2>1 DEF CaptionsInv, LeftOpen
  <2> QED  BY <1>1, <2>2, SamePlaces DEF LeftOpen
<1> QED  BY <1>1, <1>4, <1>5, <1>6, <1>7, LineStays

LEMMA OpenaiDropsStep ==
    ASSUME CaptionsInv, OpenaiDrops
    PROVE  CaptionsStep'
<1>1. /\ UNCHANGED <<line, captionBuf, transcripts, turn>> /\ answering' = 0 /\ waiting' = <<>> /\ speaking' = FALSE
  BY DEF OpenaiDrops, browser
<1>2. \A t \in Turns : Ahead(t)' => Ahead(t) /\ t # answering
  <2> TAKE t \in Turns
  <2>1. Ahead(t)' => t > turn
    BY <1>1, EmptySeq DEF Ahead, Turns
  <2> QED  BY <2>1 DEF Ahead, CaptionsInv, TurnQueue, TypeOK, Turns
<1>3. 0 \notin Turns
  BY DEF Turns
<1>4. LeftOpen'
  BY <1>1 DEF LeftOpen
<1> QED  BY <1>1, <1>2, <1>3, <1>4, LineStays

\* A step that sends one message, of the turn being answered if of any.
LEMMA OneMessageStep ==
    ASSUME CaptionsInv, NEW m \in Messages, Forward(<<m>>), UNCHANGED <<captionBuf, transcripts>>,
           m.type \in {"caption_delta", "turn_done"} => m.text \subseteq {answering},
           \A t \in Turns : Ahead(t)' => Ahead(t),
           \A t \in Turns : Ahead(t)' /\ (t # answering' \/ m.type = "turn_done") => t # answering,
           \/ m.type \in {"speech_started", "turn_done"}
           \/ UNCHANGED <<answering, waiting, speaking>>
    PROVE  CaptionsStep'
<1>1. PICK n : n = LineEnd
  OBVIOUS
<1>2. /\ TypeOK /\ TurnQueue /\ OneTurnEach /\ LineInOrder /\ ShownBefore /\ AheadIsLater /\ LeftOpen
      /\ n \in Nat /\ Places' = Places \cup {n} /\ Len(line') = n
      /\ KindAt(n)' = m.type
      /\ CaptionAt(n)' = IF m.type \in {"caption_delta", "turn_done"} THEN m.text ELSE {}
      /\ \A i \in Places : KindAt(i)' = KindAt(i) /\ CaptionAt(i)' = CaptionAt(i)
      /\ \A i \in Places, j \in 0..n :
           (EndsTurn(i, j)' <=> EndsTurn(i, j)) /\ (ClearsBuffer(i, j)' <=> ClearsBuffer(i, j))
      /\ \A i \in Places' : EndsTurn(i, LineEnd)' <=> (i \in Places /\ EndsTurn(i, n)) \/ m.type = "turn_done"
      /\ \A i \in Places' : ClearsBuffer(i, LineEnd)' <=>
           (i \in Places /\ ClearsBuffer(i, n)) \/ m.type \in {"turn_done", "speech_started"}
  BY <1>1, OneJoins DEF CaptionsInv
<1>3. \A b \in CaptionAt(n)' : b = answering /\ b \in Turns /\ answering # 0 /\ Ahead(answering)
  BY <1>2 DEF Messages, Turns, Ahead
<1>4. OneTurnEach' /\ LineInOrder' /\ ShownBefore'
  <2>1. \A j \in n..(n - 1) : CaptionAt(j)' = {}
    BY <1>2
  <2>2. \A i \in Places : \A a \in CaptionAt(i), b \in CaptionAt(n)' :
          /\ a <= b
          /\ EndsTurn(i, n)' => a < b
          /\ a < b /\ KindAt(n)' = "caption_delta" => ClearsBuffer(i, n)'
    <3> SUFFICES ASSUME NEW i \in Places, NEW a \in CaptionAt(i), NEW b \in CaptionAt(n)'
                 PROVE  /\ a <= b
                        /\ EndsTurn(i, n)' => a < b
                        /\ a < b => ClearsBuffer(i, n)'
      OBVIOUS
    <3>1. b = answering /\ b \in Turns /\ b # 0 /\ Ahead(b)
      BY <1>3
    <3>2. (EndsTurn(i, n)' <=> EndsTurn(i, LineEnd)) /\ (ClearsBuffer(i, n)' <=> ClearsBuffer(i, LineEnd))
      BY <1>1, <1>2
    <3>3. a <= b /\ (EndsTurn(i, LineEnd) => a < b)
      BY <1>2, <3>1 DEF AheadIsLater
    <3>4. a \in Nat
      BY <1>2, LineFacts
    <3>5. ~ClearsBuffer(i, LineEnd) => a = b
      BY <1>2, <3>1 DEF LeftOpen
    <3> QED  BY <3>2, <3>3, <3>4, <3>5
  <2>3. \A k \in 1..Len(transcripts) : \A a \in transcripts[k].translated : \A b \in CaptionAt(n)' : a < b
    BY <1>2, <1>3 DEF AheadIsLater
  <2>4. \A a, b \in CaptionAt(n)' : a = b
    BY <1>3
  <2> QED  BY <1>1, <1>2, <2>1, <2>2, <2>3, <2>4, LineGrows
<1>5. AheadIsLater'
  <2> SUFFICES ASSUME NEW t \in Turns, Ahead(t)'
               PROVE  /\ \A k \in 1..Len(transcripts) : \A a \in transcripts[k].translated : a < t
                      /\ \A i \in Places' : \A b \in CaptionAt(i)' :
                           b <= t /\ (t # answering' \/ EndsTurn(i, LineEnd)' => b < t)
    BY DEF AheadIsLater
  <2>1. Ahead(t) /\ (t # answering' \/ m.type = "turn_done" => t # answering)
    OBVIOUS
  <2>2. ASSUME NEW i \in Places, NEW b \in CaptionAt(i)
        PROVE  b <= t /\ (t # answering' \/ EndsTurn(i, LineEnd)' => b < t)
    <3>1. b <= t /\ (t # answering \/ EndsTurn(i, n) => b < t)
      BY <1>1, <1>2, <2>1 DEF AheadIsLater
    <3>2. EndsTurn(i, LineEnd)' => EndsTurn(i, n) \/ m.type = "turn_done"
      BY <1>2
    <3> QED  BY <2>1, <3>1, <3>2
  <2>3. ASSUME NEW b \in CaptionAt(n)'
        PROVE  b <= t /\ (t # answering' \/ (EndsTurn(n, LineEnd)' /\ n \notin Places) => b < t)
    <3>1. EndsTurn(n, LineEnd)' /\ n \notin Places => m.type = "turn_done"
      BY <1>2
    <3>2. t # answering => b < t
      BY <1>2, <1>3, <2>1, <2>3, AheadAfter
    <3>3. b = answering /\ answering \in Nat /\ t \in Nat
      BY <1>2, <1>3, <2>3 DEF TypeOK, Turns
    <3> QED  BY <2>1, <3>1, <3>2, <3>3
  <2>4. n \notin Places
    BY <1>1, <1>2 DEF Places, LineEnd
  <2> QED  BY <1>2, <2>1, <2>2, <2>3, <2>4 DEF AheadIsLater
<1>6. LeftOpen'
  <2> SUFFICES ASSUME NEW i \in Places', NEW b \in CaptionAt(i)', ~ClearsBuffer(i, LineEnd)'
               PROVE  b = answering' \/ (answering' = 0 /\ waiting' = <<>> /\ ~speaking')
    BY DEF LeftOpen
  <2>1. UNCHANGED <<answering, waiting, speaking>>
    BY <1>2
  <2>2. CASE i \in Places
    BY <1>1, <1>2, <2>1, <2>2 DEF LeftOpen
  <2>3. CASE i = n
    BY <1>3, <2>1, <2>3
  <2> QED  BY <1>2, <2>2, <2>3
<1> QED  BY <1>4, <1>5, <1>6 DEF CaptionsStep

LEMMA CaptionDeltaStep ==
    ASSUME CaptionsInv, CaptionDelta
    PROVE  CaptionsStep'
<1>1. answering \in Turns
  BY DEF CaptionDelta, CaptionsInv, TypeOK, Turns
<1>2. PICK m : m = Msg("caption_delta", {answering})
  OBVIOUS
<1>3. m \in Messages /\ m.type = "caption_delta" /\ m.text = {answering} /\ Forward(<<m>>)
  BY <1>1, <1>2, MsgType DEF CaptionDelta, Send
<1>4. UNCHANGED <<turn, speaking, answering, waiting, captionBuf, transcripts>>
  BY DEF CaptionDelta, openai, browser
<1>5. \A t \in Turns : Ahead(t)' => Ahead(t)
  BY <1>4 DEF Ahead
<1> QED  BY <1>3, <1>4, <1>5, OneMessageStep

LEMMA SpeechTextStep ==
    ASSUME CaptionsInv, NEW s \in Turns, SpeechDelta(s) \/ SpeechCompleted(s)
    PROVE  CaptionsStep'
<1>1. UNCHANGED <<turn, speaking, answering, waiting, captionBuf, transcripts>>
  BY DEF SpeechDelta, SpeechCompleted, openai, browser
<1>2. \A t \in Turns : Ahead(t)' => Ahead(t)
  BY <1>1 DEF Ahead
<1>3. CASE UNCHANGED line
  <2>1. LeftOpen'
    BY <1>1, <1>3, SamePlaces DEF CaptionsInv, LeftOpen
  <2> QED  BY <1>1, <1>2, <1>3, <2>1, LineStays
<1>4. CASE Send("speech_delta", {s}) \/ Send("speech_done", {s})
  <2>1. PICK m : m \in {Msg("speech_delta", {s}), Msg("speech_done", {s})} /\ Forward(<<m>>)
    BY <1>4 DEF Send
  <2>2. m \in Messages /\ m.type \in {"speech_delta", "speech_done"}
    BY <2>1, MsgType
  <2> QED  BY <1>1, <1>2, <2>1, <2>2, OneMessageStep
<1> QED  BY <1>3, <1>4 DEF SpeechDelta, SpeechCompleted

LEMMA ResponseDoneStep ==
    ASSUME CaptionsInv, ResponseDone
    PROVE  CaptionsStep'
<1>1. UNCHANGED <<turn, speaking, waiting, captionBuf, transcripts>> /\ answering' = 0 /\ answering # 0
  BY DEF ResponseDone, browser
<1>2. PICK m : m = Msg("turn_done", turnCaption)
  OBVIOUS
<1>3. m \in Messages /\ m.type = "turn_done" /\ m.text \subseteq {answering} /\ Forward(<<m>>)
  <2>1. turnCaption \in SUBSET Turns /\ turnCaption \subseteq {answering}
    BY DEF CaptionsInv, TypeOK, TurnQueue
  <2>2. m \in Messages /\ m.type = "turn_done" /\ m.text = turnCaption
    BY <1>2, <2>1, MsgType
  <2> QED  BY <1>2, <2>1, <2>2 DEF ResponseDone, Send
<1>4. \A t \in Turns : Ahead(t)' => Ahead(t) /\ t # answering
  <2>1. \A t \in Turns : Ahead(t)' => Ahead(t) /\ (t > turn \/ (speaking /\ t = turn) \/ \E k \in 1..Len(waiting) : waiting[k] = t)
    BY <1>1 DEF Ahead, Turns
  <2>2. answering \in Nat /\ turn \in Nat
    BY DEF CaptionsInv, TypeOK
  <2> QED  BY <2>1, <2>2 DEF CaptionsInv, TurnQueue, Turns
<1> QED  BY <1>1, <1>3, <1>4, OneMessageStep

\* The response that runs is cut short: two messages join.
LEMMA CutShortStep ==
    ASSUME CaptionsInv, SpeechStarted, answering # 0
    PROVE  CaptionsStep'
<1>1. PICK n : n = LineEnd
  OBVIOUS
<1>2. PICK ms : ms = <<Msg("speech_started", {}), Msg("turn_done", turnCaption)>>
  OBVIOUS
<1>3. /\ UNCHANGED <<waiting, captionBuf, transcripts>> /\ answering' = 0 /\ speaking' = TRUE
      /\ turn' = turn + 1 /\ line' = line \o ms /\ ~speaking
  BY <1>2 DEF SpeechStarted, browser, Forward
<1>4. /\ TypeOK /\ TurnQueue /\ OneTurnEach /\ LineInOrder /\ ShownBefore /\ AheadIsLater /\ LeftOpen
      /\ turnCaption \in SUBSET Turns /\ turnCaption \subseteq {answering} /\ answering \in Turns /\ Ahead(answering)
      /\ answering \in Nat /\ turn \in Nat
  BY DEF CaptionsInv, TypeOK, TurnQueue, Turns, Ahead
<1>5. ms \in Seq(Messages) /\ Len(ms) = 2 /\ ms[1].type = "speech_started" /\ ms[2].type = "turn_done" /\ ms[2].text = turnCaption
  <2>1. /\ Msg("speech_started", {}) \in Messages /\ Msg("speech_started", {}).type = "speech_started"
        /\ Msg("turn_done", turnCaption) \in Messages
        /\ Msg("turn_done", turnCaption).type = "turn_done" /\ Msg("turn_done", turnCaption).text = turnCaption
    BY <1>4, MsgType
  <2> QED  BY <1>2, <2>1
<1>6. /\ Len(line) \in Nat /\ n = Len(line) + 1 /\ Places = 0..(n - 1) /\ Len(line') = n + 1
      /\ \A i \in Places : KindAt(i)' = KindAt(i) /\ CaptionAt(i)' = CaptionAt(i)
      /\ \A i \in Places, j \in 0..n :
           (EndsTurn(i, j)' <=> EndsTurn(i, j)) /\ (ClearsBuffer(i, j)' <=> ClearsBuffer(i, j))
      /\ line'[n] = ms[1] /\ line'[n + 1] = ms[2]
  <2>1. /\ Len(line') = Len(line) + Len(ms)
        /\ \A i \in Places : KindAt(i)' = KindAt(i) /\ CaptionAt(i)' = CaptionAt(i)
        /\ \A k \in 1..Len(ms) : line'[Len(line) + k] = ms[k]
        /\ \A i \in Places, j \in 0..n :
             (EndsTurn(i, j)' <=> EndsTurn(i, j)) /\ (ClearsBuffer(i, j)' <=> ClearsBuffer(i, j))
    BY <1>1, <1>3, <1>4, <1>5, JoinedLine
  <2>2. Len(line) \in Nat /\ n = Len(line) + 1 /\ Places = 0..(n - 1)
    BY <1>1, <1>4, LineFacts DEF LineEnd, Places
  <2>3. line'[Len(line) + 1] = ms[1] /\ line'[Len(line) + 2] = ms[2]
    BY <1>5, <2>1
  <2> QED  BY <1>5, <2>1, <2>2, <2>3
<1> DEFINE N == n + 1
<1>7. /\ n \in Nat /\ N \in Nat /\ N = Len(line') /\ n <= N /\ Places' = Places \cup {n, N} /\ LineEnd' = N + 1
  BY <1>6 DEF Places, LineEnd
<1>8. /\ KindAt(n)' = "speech_started" /\ CaptionAt(n)' = {}
      /\ KindAt(N)' = "turn_done" /\ CaptionAt(N)' = turnCaption
  BY <1>5, <1>6, <1>7 DEF KindAt, CaptionAt
<1>9. \A i \in Places : EndsTurn(i, N)' => EndsTurn(i, LineEnd)
  <2> SUFFICES ASSUME NEW i \in Places, EndsTurn(i, N)'
               PROVE  EndsTurn(i, n)'
    BY <1>1, <1>6, <1>7
  <2>1. PICK k \in i..(N - 1) : KindAt(k)' = "turn_done"
    BY DEF EndsTurn
  <2>2. k # n
    BY <1>8, <2>1
  <2>3. i \in Nat
    BY <1>6
  <2>4. k \in i..(n - 1)
    BY <1>7, <2>2, <2>3
  <2> QED  BY <2>1, <2>4 DEF EndsTurn
<1>10. OneTurnEach' /\ LineInOrder' /\ ShownBefore'
  <2>1. \A j \in n..(N - 1) : CaptionAt(j)' = {}
    BY <1>7, <1>8
  <2>2. \A i \in Places : \A a \in CaptionAt(i), b \in CaptionAt(N)' :
          /\ a <= b
          /\ EndsTurn(i, N)' => a < b
          /\ a < b /\ KindAt(N)' = "caption_delta" => ClearsBuffer(i, N)'
    BY <1>4, <1>8, <1>9 DEF AheadIsLater
  <2>3. \A k \in 1..Len(transcripts) : \A a \in transcripts[k].translated : \A b \in CaptionAt(N)' : a < b
    BY <1>4, <1>8 DEF AheadIsLater
  <2>4. \A a, b \in CaptionAt(N)' : a = b
    BY <1>4, <1>8
  <2>5. UNCHANGED transcripts
    BY <1>3
  <2> HIDE DEF N
  <2> QED  BY <1>1, <1>4, <1>6, <1>7, <2>1, <2>2, <2>3, <2>4, <2>5, LineGrows
<1>11. \A t \in Turns : Ahead(t)' => Ahead(t) /\ t # answering
  BY <1>3, <1>4 DEF Ahead, TurnQueue, Turns
<1>12. AheadIsLater'
  <2> SUFFICES ASSUME NEW t \in Turns, Ahead(t)'
               PROVE  /\ \A k \in 1..Len(transcripts) : \A a \in transcripts[k].translated : a < t
                      /\ \A i \in Places' : \A b \in CaptionAt(i)' : b < t /\ b <= t
    BY <1>3 DEF AheadIsLater
  <2>1. Ahead(t) /\ t # answering
    BY <1>11
  <2>2. \A i \in Places : \A b \in CaptionAt(i) : b < t /\ b <= t
    BY <1>4, <2>1 DEF AheadIsLater
  <2>3. answering < t /\ answering <= t
    BY <1>4, <2>1, AheadAfter DEF Turns
  <2> QED  BY <1>4, <1>6, <1>7, <1>8, <2>1, <2>2, <2>3 DEF AheadIsLater
<1>13. LeftOpen'
  <2>1. \A i \in Places' : N \in i..(LineEnd' - 1)
    BY <1>6, <1>7
  <2>2. \A i \in Places' : ClearsBuffer(i, LineEnd)'
    BY <1>8, <2>1 DEF ClearsBuffer
  <2> QED  BY <2>2 DEF LeftOpen
<1> QED  BY <1>10, <1>12, <1>13 DEF CaptionsStep

LEMMA SpeechStartedStep ==
    ASSUME CaptionsInv, SpeechStarted
    PROVE  CaptionsStep'
<1>1. CASE answering = 0
  <2>1. PICK m : m = Msg("speech_started", {})
    OBVIOUS
  <2>2. m \in Messages /\ m.type = "speech_started" /\ Forward(<<m>>)
    BY <1>1, <2>1, MsgType DEF SpeechStarted, Send
  <2>3. UNCHANGED <<answering, waiting, captionBuf, transcripts>> /\ turn' = turn + 1 /\ speaking' = TRUE /\ turn \in Nat
    BY <1>1 DEF SpeechStarted, browser, CaptionsInv, TypeOK
  <2>4. \A t \in Turns : Ahead(t)' => Ahead(t) /\ t # answering
    BY <1>1, <2>3 DEF Ahead, Turns
  <2> QED  BY <2>2, <2>3, <2>4, OneMessageStep
<1> QED  BY <1>1, CutShortStep

LEMMA OpenaiStep ==
    ASSUME CaptionsInv, OpenAI
    PROVE  CaptionsStep'
BY SpeechStartedStep, SpeechStoppedStep, ResponseStartsStep, CaptionDeltaStep, ResponseDoneStep,
   OpenaiDropsStep, SpeechTextStep DEF OpenAI

-----------------------------------------------------------------------------
\* The steps of the browser: the first message leaves the line.

LEMMA TailPlaces ==
    ASSUME TypeOK, line # <<>>, line' = Tail(line), NEW n, n = Len(line)
    PROVE  /\ n \in Nat /\ n >= 1 /\ Len(line') = n - 1 /\ LineEnd = n + 1 /\ LineEnd' = n
           /\ Places = 0..n /\ Places' = 0..(n - 1)
           /\ \A i \in 1..(n - 1) : KindAt(i)' = KindAt(i + 1) /\ CaptionAt(i)' = CaptionAt(i + 1)
           /\ KindAt(0) = "caption_delta" /\ KindAt(0)' = "caption_delta"
           /\ CaptionAt(0) = captionBuf /\ CaptionAt(0)' = captionBuf'
           /\ line[1] = Head(line) /\ line[1] \in Messages /\ KindAt(1) = line[1].type
           /\ CaptionAt(1) = IF line[1].type \in {"caption_delta", "turn_done"} THEN line[1].text ELSE {}
<1>1. /\ n \in Nat /\ n >= 1 /\ Len(line') = n - 1
      /\ \A i \in 1..(n - 1) : line'[i] = line[i + 1]
      /\ line[1] = Head(line) /\ line[1] \in Messages
  BY HeadTailProperties, LenProperties, EmptySeq, ElementOfSeq DEF TypeOK
<1>2. \A i \in 1..(n - 1) : i # 0 /\ i + 1 # 0
  BY <1>1
<1>3. \A i \in 1..(n - 1) : KindAt(i)' = KindAt(i + 1) /\ CaptionAt(i)' = CaptionAt(i + 1)
  BY <1>1, <1>2 DEF KindAt, CaptionAt
<1> QED  BY <1>1, <1>3 DEF KindAt, CaptionAt, LineEnd, Places

\* Where the captions of a place were before the first message left.
LEMMA Origins ==
    ASSUME TypeOK, line # <<>>, line' = Tail(line), NEW n, n = Len(line),
           \/ captionBuf' = {}
           \/ /\ captionBuf' \subseteq CaptionAt(0) \cup CaptionAt(1)
              /\ KindAt(1) \notin {"turn_done", "speech_started"},
           NEW i \in 0..(n - 1), NEW a \in CaptionAt(i)'
    PROVE  \E o \in 0..n :
             /\ o <= i + 1 /\ (i # 0 => o = i + 1) /\ a \in CaptionAt(o)
             /\ \A j \in (i + 1)..n :
                  (EndsTurn(i, j)' <=> EndsTurn(o, j + 1)) /\ (ClearsBuffer(i, j)' <=> ClearsBuffer(o, j + 1))
<1>1. /\ n \in Nat /\ n >= 1 /\ KindAt(0) = "caption_delta" /\ KindAt(0)' = "caption_delta"
      /\ \A k \in 1..(n - 1) : KindAt(k)' = KindAt(k + 1) /\ CaptionAt(k)' = CaptionAt(k + 1)
      /\ CaptionAt(0)' = captionBuf'
  BY TailPlaces
<1>2. CASE i # 0
  <2>1. i + 1 \in 0..n /\ a \in CaptionAt(i + 1)
    BY <1>1, <1>2
  <2>2. ASSUME NEW j \in (i + 1)..n
        PROVE  (EndsTurn(i, j)' <=> EndsTurn(i + 1, j + 1)) /\ (ClearsBuffer(i, j)' <=> ClearsBuffer(i + 1, j + 1))
    <3>1. \A k \in i..(j - 1) : KindAt(k)' = KindAt(k + 1) /\ k + 1 \in (i + 1)..((j + 1) - 1)
      BY <1>1, <1>2
    <3>2. \A k \in (i + 1)..((j + 1) - 1) : k - 1 \in i..(j - 1) /\ KindAt(k - 1)' = KindAt(k)
      <4> TAKE k \in (i + 1)..((j + 1) - 1)
      <4>1. k - 1 \in i..(j - 1) /\ (k - 1) + 1 = k
        BY <1>1
      <4> QED  BY <3>1, <4>1
    <3> QED  BY <3>1, <3>2 DEF EndsTurn, ClearsBuffer
  <2> QED  BY <1>1, <2>1, <2>2
<1>3. CASE i = 0
  <2>1. PICK o \in {0, 1} : a \in CaptionAt(o)
    BY <1>1, <1>3
  <2>2. KindAt(1) \notin {"turn_done", "speech_started"}
    BY <1>1, <1>3
  <2>3. ASSUME NEW j \in 1..n
        PROVE  (EndsTurn(0, j)' <=> EndsTurn(o, j + 1)) /\ (ClearsBuffer(0, j)' <=> ClearsBuffer(o, j + 1))
    <3>1. \A k \in 0..(j - 1) : k # 0 => KindAt(k)' = KindAt(k + 1) /\ k + 1 \in o..((j + 1) - 1)
      BY <1>1
    <3>2. \A k \in o..((j + 1) - 1) : k \notin {0, 1} => k - 1 \in 0..(j - 1) /\ KindAt(k - 1)' = KindAt(k)
      <4> TAKE k \in o..((j + 1) - 1)
      <4> HAVE k \notin {0, 1}
      <4>1. k - 1 \in 0..(j - 1) /\ (k - 1) + 1 = k /\ k - 1 # 0
        BY <1>1
      <4> QED  BY <3>1, <4>1
    <3>3. KindAt(0)' \notin {"turn_done", "speech_started"} /\ KindAt(0) \notin {"turn_done", "speech_started"}
      BY <1>1
    <3> QED  BY <2>2, <3>1, <3>2, <3>3 DEF EndsTurn, ClearsBuffer
  <2> QED  BY <1>1, <1>3, <2>1, <2>3
<1> QED  BY <1>2, <1>3

\* What holds of the places after the first message left, whatever it was.
LEMMA LineShrinks ==
    ASSUME CaptionsInv, line # <<>>, line' = Tail(line), UNCHANGED openai,
           \/ captionBuf' = {}
           \/ /\ captionBuf' \subseteq CaptionAt(0) \cup CaptionAt(1)
              /\ KindAt(1) \notin {"turn_done", "speech_started"}
    PROVE  /\ OneTurnEach' /\ LineInOrder' /\ LeftOpen'
           /\ \A i \in Places' : \A b \in CaptionAt(i)' :
                \A k \in 1..Len(transcripts) : \A a \in transcripts[k].translated : a < b
           /\ \A t \in Turns : Ahead(t)' => Ahead(t)
           /\ \A t \in Turns : Ahead(t) => \A i \in Places' : \A b \in CaptionAt(i)' :
                b <= t /\ (t # answering' \/ EndsTurn(i, LineEnd)' => b < t)
<1>1. PICK n : n = Len(line)
  OBVIOUS
<1>2. /\ TypeOK /\ OneTurnEach /\ LineInOrder /\ ShownBefore /\ AheadIsLater /\ LeftOpen
      /\ n \in Nat /\ n >= 1 /\ Places = 0..n /\ Places' = 0..(n - 1) /\ LineEnd = n + 1 /\ LineEnd' = n
      /\ KindAt(0) = "caption_delta"
      /\ \A i \in Places : CaptionAt(i) \subseteq Nat
  BY <1>1, TailPlaces, LineFacts DEF CaptionsInv
<1>3. UNCHANGED <<turn, speaking, answering, waiting>>
  BY DEF openai
<1>4. \A i \in Places' : \A a \in CaptionAt(i)' :
        \E o \in 0..n :
             /\ o <= i + 1 /\ (i # 0 => o = i + 1) /\ a \in CaptionAt(o)
             /\ \A j \in (i + 1)..n :
                  (EndsTurn(i, j)' <=> EndsTurn(o, j + 1)) /\ (ClearsBuffer(i, j)' <=> ClearsBuffer(o, j + 1))
  BY <1>1, <1>2, Origins
<1>5. OneTurnEach'
  <2> SUFFICES ASSUME NEW i \in Places', NEW a \in CaptionAt(i)', NEW b \in CaptionAt(i)'
               PROVE  a = b
    BY DEF OneTurnEach
  <2>1. CASE i = 0
    <3>1. a \in CaptionAt(0) \cup CaptionAt(1) /\ b \in CaptionAt(0) \cup CaptionAt(1)
      BY <1>4, <2>1
    <3>2. 0 \in Places /\ 1 \in Places /\ 0 < 1
      BY <1>2
    <3>3. ~ClearsBuffer(0, 1)
      BY <1>2 DEF ClearsBuffer
    <3>4. KindAt(1) \notin {"turn_done", "speech_started"}
      BY <2>1 DEF CaptionAt
    <3>5. KindAt(1) \notin {"caption_delta", "turn_done"} => CaptionAt(1) = {}
      BY DEF KindAt, CaptionAt
    <3>6. \A x \in CaptionAt(0), y \in CaptionAt(1) : x = y
      BY <1>2, <3>2, <3>3, <3>4, <3>5 DEF LineInOrder
    <3> QED  BY <1>2, <3>1, <3>2, <3>6 DEF OneTurnEach
  <2>2. CASE i # 0
    <3>1. i + 1 \in Places /\ a \in CaptionAt(i + 1) /\ b \in CaptionAt(i + 1)
      BY <1>2, <1>4, <2>2
    <3> QED  BY <1>2, <3>1 DEF OneTurnEach
  <2> QED  BY <2>1, <2>2
<1>6. LineInOrder'
  <2> SUFFICES ASSUME NEW i \in Places', NEW j \in Places', i < j,
                      NEW a \in CaptionAt(i)', NEW b \in CaptionAt(j)'
               PROVE  /\ a <= b
                      /\ EndsTurn(i, j)' => a < b
                      /\ a < b /\ KindAt(j)' = "caption_delta" => ClearsBuffer(i, j)'
    BY DEF LineInOrder
  <2>1. PICK o \in 0..n :
             /\ o <= i + 1 /\ a \in CaptionAt(o)
             /\ \A l \in (i + 1)..n :
                  (EndsTurn(i, l)' <=> EndsTurn(o, l + 1)) /\ (ClearsBuffer(i, l)' <=> ClearsBuffer(o, l + 1))
    BY <1>4
  <2>2. j # 0 /\ j \in 1..(n - 1) /\ j \in (i + 1)..n /\ o \in Places /\ j + 1 \in Places /\ o < j + 1
    BY <1>2, <2>1
  <2>3. b \in CaptionAt(j + 1)
    BY <1>4, <2>2
  <2>4. KindAt(j)' = KindAt(j + 1)
    BY <1>1, <1>2, <2>2, TailPlaces
  <2> QED  BY <1>2, <2>1, <2>2, <2>3, <2>4 DEF LineInOrder
<1>7. LeftOpen'
  <2> SUFFICES ASSUME NEW i \in Places', NEW b \in CaptionAt(i)', ~ClearsBuffer(i, n)'
               PROVE  b = answering \/ (answering = 0 /\ waiting = <<>> /\ ~speaking)
    BY <1>2, <1>3 DEF LeftOpen, ClearsBuffer
  <2>1. PICK o \in 0..n : b \in CaptionAt(o) /\ \A l \in (i + 1)..n : ClearsBuffer(i, l)' <=> ClearsBuffer(o, l + 1)
    BY <1>4
  <2>2. n \in (i + 1)..n
    BY <1>2
  <2> QED  BY <1>2, <2>1, <2>2 DEF LeftOpen
<1>8. \A i \in Places' : \A b \in CaptionAt(i)' :
                \A k \in 1..Len(transcripts) : \A a \in transcripts[k].translated : a < b
  BY <1>2, <1>4 DEF ShownBefore
<1>9. \A t \in Turns : Ahead(t)' => Ahead(t)
  BY <1>3 DEF Ahead
<1>10. ASSUME NEW t \in Turns, Ahead(t), NEW i \in Places', NEW b \in CaptionAt(i)'
       PROVE  b <= t /\ (t # answering' \/ EndsTurn(i, LineEnd)' => b < t)
  <2>1. PICK o \in 0..n : b \in CaptionAt(o) /\ \A l \in (i + 1)..n : EndsTurn(i, l)' <=> EndsTurn(o, l + 1)
    BY <1>4
  <2>2. n \in (i + 1)..n
    BY <1>2
  <2>3. b <= t /\ (t # answering \/ EndsTurn(o, n + 1) => b < t)
    BY <1>2, <1>10, <2>1 DEF AheadIsLater
  <2>4. EndsTurn(i, LineEnd)' <=> EndsTurn(i, n)'
    BY <1>2 DEF EndsTurn
  <2> QED  BY <1>3, <2>1, <2>2, <2>3, <2>4
<1> QED  BY <1>5, <1>6, <1>7, <1>8, <1>9, <1>10

LEMMA NothingShown ==
    ASSUME CaptionsInv, line # <<>>, line' = Tail(line), UNCHANGED <<openai, transcripts>>,
           \/ captionBuf' = {}
           \/ /\ captionBuf' \subseteq CaptionAt(0) \cup CaptionAt(1)
              /\ KindAt(1) \notin {"turn_done", "speech_started"}
    PROVE  CaptionsStep'
<1>1. ShownBefore'
  BY LineShrinks DEF ShownBefore, CaptionsInv
<1>2. AheadIsLater'
  BY LineShrinks DEF AheadIsLater, CaptionsInv
<1> QED  BY <1>1, <1>2, LineShrinks DEF CaptionsStep

\* The turn shown is the one of the message, or of the buffer before it; both
\* are over for what is still to come.
LEMMA TurnDoneStep ==
    ASSUME CaptionsInv, OnTurnDone
    PROVE  CaptionsStep'
<1>1. PICK n : n = Len(line)
  OBVIOUS
<1>2. /\ line # <<>> /\ line' = Tail(line) /\ UNCHANGED openai /\ captionBuf' = {}
      /\ Head(line).type = "turn_done"
  BY DEF OnTurnDone, Handle
<1>3. /\ TypeOK /\ OneTurnEach /\ LineInOrder /\ ShownBefore /\ AheadIsLater
      /\ n \in Nat /\ n >= 1 /\ Places = 0..n /\ Places' = 0..(n - 1) /\ LineEnd = n + 1
      /\ \A i \in 1..(n - 1) : CaptionAt(i)' = CaptionAt(i + 1)
      /\ CaptionAt(0)' = {} /\ CaptionAt(0) = captionBuf /\ CaptionAt(1) = Text /\ KindAt(1) = "turn_done"
  BY <1>1, <1>2, TailPlaces DEF CaptionsInv, Text
<1>4. \A t \in Turns : Ahead(t)' => Ahead(t)
  BY <1>2, LineShrinks
<1>5. CASE Full = {}
  BY <1>2, <1>5, NothingShown DEF OnTurnDone
<1>6. CASE Full # {}
  <2>1. PICK o \in {0, 1} : Full = CaptionAt(o)
    BY <1>3 DEF Full
  <2>2. o \in Places /\ Full \subseteq Turns /\ Turns \subseteq Nat
    BY <1>3, <2>1, LineFacts
  <2>3. PICK f \in Turns : Full = {f} /\ f \in CaptionAt(o)
    <3>1. PICK f \in Turns : f \in Full
      BY <1>6, <2>2
    <3>2. \A a, b \in CaptionAt(o) : a = b
      BY <1>3, <2>2 DEF OneTurnEach
    <3>3. Full = {f}
      BY <2>1, <3>1, <3>2
    <3> QED  BY <2>1, <3>1, <3>3
  <2>4. \A j \in 2..(n + 1) : EndsTurn(o, j)
    <3>1. \A j \in 2..(n + 1) : 1 \in o..(j - 1)
      BY <1>3
    <3> QED  BY <1>3, <3>1 DEF EndsTurn
  <2>5. \A i \in Places' : \A b \in CaptionAt(i)' : f < b
    <3> SUFFICES ASSUME NEW i \in Places', NEW b \in CaptionAt(i)'
                 PROVE  f < b
      OBVIOUS
    <3>1. i \in 1..(n - 1) /\ i + 1 \in Places /\ i + 1 \in 2..(n + 1) /\ o < i + 1 /\ b \in CaptionAt(i + 1)
      BY <1>3
    <3> QED  BY <1>3, <2>2, <2>3, <2>4, <3>1 DEF LineInOrder
  <2>6. \A t \in Turns : Ahead(t) => f < t
    BY <1>3, <2>2, <2>3, <2>4 DEF AheadIsLater
  <2>7. \A k \in 1..Len(transcripts) : \A a \in transcripts[k].translated : a < f
    BY <1>3, <2>2, <2>3 DEF ShownBefore
  <2>8. /\ Len(transcripts) \in Nat /\ Len(transcripts') = Len(transcripts) + 1
        /\ \A k \in 1..Len(transcripts) : transcripts'[k] = transcripts[k]
        /\ transcripts'[Len(transcripts) + 1].translated = {f}
    <3>1. PICK Pairs : Pairs = [source : SUBSET Turns, translated : SUBSET Turns]
      OBVIOUS
    <3>2. PICK row : row = [source |-> speechBuf, translated |-> Full]
      OBVIOUS
    <3>3. transcripts \in Seq(Pairs) /\ row \in Pairs /\ row.translated = {f}
      BY <1>3, <2>2, <2>3, <3>1, <3>2 DEF TypeOK
    <3>4. transcripts' = Append(transcripts, row)
      BY <1>6, <3>2 DEF OnTurnDone
    <3> QED  BY <3>3, <3>4, AppendProperties, LenProperties
  <2>9. ShownBefore'
    <3> SUFFICES ASSUME NEW k \in 1..Len(transcripts')
                 PROVE  /\ \E t \in Turns : transcripts'[k].translated = {t}
                        /\ \A a \in transcripts'[k].translated :
                             /\ \A i \in Places' : \A b \in CaptionAt(i)' : a < b
                             /\ \A m \in 1..Len(transcripts') : k < m => \A b \in transcripts'[m].translated : a < b
      BY DEF ShownBefore
    <3>1. CASE k \in 1..Len(transcripts)
      <4>1. \A m \in 1..Len(transcripts') : m \in 1..Len(transcripts) \/ m = Len(transcripts) + 1
        BY <2>8
      <4>2. \A a \in transcripts[k].translated : \A i \in Places' : \A b \in CaptionAt(i)' : a < b
        BY <1>2, <3>1, LineShrinks
      <4> QED  BY <1>3, <2>7, <2>8, <3>1, <4>1, <4>2 DEF ShownBefore
    <3>2. CASE k = Len(transcripts) + 1
      <4>1. ~ \E m \in 1..Len(transcripts') : k < m
        BY <2>8, <3>2
      <4> QED  BY <2>3, <2>5, <2>8, <3>2, <4>1
    <3> QED  BY <2>8, <3>1, <3>2
  <2>10. AheadIsLater'
    <3> SUFFICES ASSUME NEW t \in Turns, Ahead(t)'
                 PROVE  /\ \A k \in 1..Len(transcripts') : \A a \in transcripts'[k].translated : a < t
                        /\ \A i \in Places' : \A b \in CaptionAt(i)' :
                             b <= t /\ (t # answering' \/ EndsTurn(i, LineEnd)' => b < t)
      BY DEF AheadIsLater
    <3>1. Ahead(t)
      BY <1>4
    <3>2. \A k \in 1..Len(transcripts') : k \in 1..Len(transcripts) \/ k = Len(transcripts) + 1
      BY <2>8
    <3>3. \A k \in 1..Len(transcripts') : \A a \in transcripts'[k].translated : a < t
      BY <1>3, <2>6, <2>8, <3>1, <3>2 DEF AheadIsLater
    <3> QED  BY <1>2, <3>1, <3>3, LineShrinks
  <2> QED  BY <1>2, <2>9, <2>10, LineShrinks DEF CaptionsStep
<1> QED  BY <1>5, <1>6

LEMMA BrowserStep ==
    ASSUME CaptionsInv, Browser
    PROVE  CaptionsStep'
<1>1. CASE Reconnect
  <2>1. /\ Places' = {0} /\ CaptionAt(0)' = {} /\ UNCHANGED <<turn, transcripts>> /\ answering' = 0
        /\ speaking' = FALSE /\ waiting' = <<>> /\ turn \in Nat
    BY <1>1, EmptySeq DEF Reconnect, Places, CaptionAt, CaptionsInv, TypeOK
  <2>2. \A t \in Turns : Ahead(t)' => Ahead(t)
    BY <2>1, EmptySeq DEF Ahead, Turns
  <2>3. OneTurnEach' /\ LineInOrder' /\ LeftOpen'
    BY <2>1 DEF OneTurnEach, LineInOrder, LeftOpen
  <2>4. ShownBefore'
    BY <2>1 DEF ShownBefore, CaptionsInv
  <2>5. AheadIsLater'
    BY <2>1, <2>2 DEF AheadIsLater, CaptionsInv
  <2> QED  BY <2>3, <2>4, <2>5 DEF CaptionsStep
<1>2. CASE OnSpeechStarted
  BY <1>2, NothingShown DEF OnSpeechStarted, Handle
<1>3. CASE OnSpeechDelta \/ OnSpeechDone \/ OnCaptionDelta
  <2>1. /\ line # <<>> /\ line' = Tail(line) /\ UNCHANGED <<openai, transcripts>>
        /\ Head(line).type \in {"speech_delta", "speech_done", "caption_delta"}
        /\ captionBuf' = captionBuf \/ (Head(line).type = "caption_delta" /\ captionBuf' = captionBuf \cup Text)
    BY <1>3 DEF OnSpeechDelta, OnSpeechDone, OnCaptionDelta, Handle
  <2>2. PICK n : n = Len(line)
    OBVIOUS
  <2>3. /\ CaptionAt(0) = captionBuf /\ KindAt(1) = Head(line).type
        /\ Head(line).type = "caption_delta" => CaptionAt(1) = Text
    BY <2>1, <2>2, TailPlaces DEF CaptionsInv, Text
  <2> QED  BY <2>1, <2>3, NothingShown
<1> QED  BY <1>1, <1>2, <1>3, TurnDoneStep DEF Browser

-----------------------------------------------------------------------------
\* The invariant, for any number of turns, messages on their way and lost
\* connections: the captions on the line are in the order of their turns, each
\* of one turn, and later than those shown.
THEOREM CaptionsInvariant == Spec => []CaptionsInv
<1>1. Init => CaptionsInv
  <2> SUFFICES ASSUME Init
               PROVE  CaptionsInv
    OBVIOUS
  <2>1. TypeOK
    <3>1. 0 \in 0..MaxTurns /\ 0 \in 0..MaxDrops
      BY CaptionAssumption
    <3>2. waiting \in Seq(Turns) /\ line \in Seq(Messages)
      BY EmptySeq DEF Init
    <3>3. transcripts \in Seq([source : SUBSET Turns, translated : SUBSET Turns])
      BY EmptySeq DEF Init
    <3> QED  BY <3>1, <3>2, <3>3 DEF Init, TypeOK
  <2>2. TurnQueue
    BY EmptySeq DEF Init, TurnQueue
  <2>3. Places = {0} /\ CaptionAt(0) = {} /\ Len(transcripts) = 0
    BY EmptySeq DEF Init, Places, CaptionAt
  <2> QED  BY <2>1, <2>2, <2>3 DEF CaptionsInv, OneTurnEach, LineInOrder, ShownBefore, AheadIsLater, LeftOpen
<1>2. CaptionsInv /\ [Next]_vars => CaptionsInv'
  <2> SUFFICES ASSUME CaptionsInv, [Next]_vars
               PROVE  CaptionsInv'
    OBVIOUS
  <2>1. TypeOK' /\ TurnQueue'
    BY TypeStep, TurnQueueStep DEF CaptionsInv
  <2>2. CASE UNCHANGED vars
    <3>1. UNCHANGED <<line, captionBuf, transcripts, turn, speaking, answering, waiting>>
      BY <2>2 DEF vars, openai, browser
    <3>2. \A t \in Turns : Ahead(t)' => Ahead(t)
      BY <3>1 DEF Ahead
    <3>3. LeftOpen'
      BY <3>1, SamePlaces DEF LeftOpen, CaptionsInv
    <3> QED  BY <2>1, <3>1, <3>2, <3>3, LineStays DEF CaptionsInv, CaptionsStep
  <2> QED  BY <2>1, <2>2, OpenaiStep, BrowserStep DEF Next, CaptionsInv, CaptionsStep
<1> QED  BY <1>1, <1>2, PTL DEF Spec

\* The translations shown are each of one turn, no turn is shown twice, and the
\* partial caption is of one turn at most.
THEOREM CaptionsStayApart == Spec => []CaptionsApart
<1>1. CaptionsInv => CaptionsApart
  <2> SUFFICES ASSUME CaptionsInv
               PROVE  CaptionsApart
    OBVIOUS
  <2>0. Len(transcripts) \in Nat /\ DOMAIN transcripts = 1..Len(transcripts)
    BY LenProperties DEF CaptionsInv, TypeOK
  <2>1. \A t : Cardinality({t}) = 1
    BY FS_Singleton
  <2>2. TranslationOfOneTurn
    <3>1. \A n \in 1..Len(transcripts) : Cardinality(transcripts[n].translated) = 1
      BY <2>1 DEF CaptionsInv, ShownBefore
    <3> QED  BY <2>0, <3>1 DEF TranslationOfOneTurn, Range
  <2>3. ShownOnce
    <3> SUFFICES ASSUME NEW i \in DOMAIN transcripts, NEW j \in DOMAIN transcripts,
                        transcripts[i].translated = transcripts[j].translated
                 PROVE  i = j
      BY DEF ShownOnce
    <3>1. PICK t \in Turns : transcripts[i].translated = {t}
      BY <2>0 DEF CaptionsInv, ShownBefore
    <3>2. ~(t < t)
      BY DEF Turns
    <3>3. ~(i < j) /\ ~(j < i)
      BY <2>0, <3>1, <3>2 DEF CaptionsInv, ShownBefore
    <3> QED  BY <2>0, <3>3
  <2>4. PartialOfOneTurn
    <3>1. \A a, b \in captionBuf : a = b
      <4>1. 0 \in Places /\ CaptionAt(0) = captionBuf
        BY LineFacts DEF Places, CaptionAt, CaptionsInv
      <4> QED  BY <4>1 DEF CaptionsInv, OneTurnEach
    <3>2. captionBuf = {} \/ \E t : captionBuf = {t}
      BY <3>1
    <3>3. Cardinality(captionBuf) \in {0, 1}
      BY <2>1, <3>2, FS_EmptySet
    <3> QED  BY <3>3 DEF PartialOfOneTurn
  <2> QED  BY <2>2, <2>3, <2>4 DEF CaptionsApart
<1> QED  BY <1>1, CaptionsInvariant, PTL
=============================================================================
