---------------------------- MODULE Console_proofs ----------------------------
(***************************************************************************)
(* Proofs about what reaches a console and what it shows: AlertFeed (its   *)
(* alert list and toasts), LiveFeed (the backend's WebSockets and the      *)
(* switch that silences them) and SourcePanel (its panel of threat         *)
(* sources).  AlertFeed and SourcePanel share a clock and the alerts; no   *)
(* theorem relates the three.                                              *)
(***************************************************************************)
EXTENDS AlertFeed, LiveFeed, SourcePanel, FiniteSetTheorems, TLAPS

-----------------------------------------------------------------------------
(* AlertFeed, for any alerts, list lengths, poll limits and numbers of     *)
(* overlapping polls and frames.  TypeOK is proved first: what a cut       *)
(* leaves of a list is a list, and its length is bounded.  That toasts are *)
(* made once is not inductive alone: it needs that the baseline was seen,  *)
(* and is empty until a poll sets it.                                      *)

Frame == [id : Alerts, at : Times]
List == [Alerts -> {Never} \cup Times]

\* The baseline is part of what was seen, and empty before the first answer.
BaselineSeen == baseline \subseteq seenIds /\ (~baselineSeen => baseline = {})

-----------------------------------------------------------------------------
\* A cut (the sort and slice of a list) is a list of at most n of its alerts.
LEMMA CutIsList ==
    ASSUME NEW list \in List, NEW n \in Nat, NEW cut \in Cuts(list, n)
    PROVE  /\ cut \in List
           /\ Listed(cut) \subseteq Listed(list)
           /\ Cardinality(Listed(cut)) <= n
<1>1. PICK kept \in SUBSET Listed(list) :
        /\ Cardinality(kept) = IF Cardinality(Listed(list)) < n
                               THEN Cardinality(Listed(list)) ELSE n
        /\ cut = [a \in Alerts |-> IF a \in kept THEN list[a] ELSE Never]
    BY DEF Cuts
<1>2. Listed(cut) = kept
    BY <1>1 DEF Listed
<1>3. cut \in List
    BY <1>1 DEF List, Listed
<1>4. IsFiniteSet(Listed(list))
    BY FS_Subset, FeedAssumption DEF Listed
<1>5. Cardinality(Listed(list)) \in Nat
    BY <1>4, FS_CardinalityType
<1>6. Cardinality(kept) <= n
    BY <1>1, <1>5
<1> QED
    BY <1>1, <1>2, <1>3, <1>6

\* Joining a list that was cut to make room for it keeps its length.
LEMMA JoinedList ==
    ASSUME NEW rest \in List, NEW a \in Alerts, NEW at \in Times,
           Cardinality(Listed(rest)) <= MaxAlerts - 1
    PROVE  /\ [rest EXCEPT ![a] = at] \in List
           /\ Listed([rest EXCEPT ![a] = at]) \subseteq Listed(rest) \cup {a}
           /\ Cardinality(Listed([rest EXCEPT ![a] = at])) <= MaxAlerts
<1> DEFINE joined == [rest EXCEPT ![a] = at]
<1>1. joined \in List
    BY DEF List
<1>2. Listed(joined) \subseteq Listed(rest) \cup {a}
    BY DEF List, Listed
<1>3. IsFiniteSet(Listed(rest))
    BY FS_Subset, FeedAssumption DEF Listed
<1>4. /\ IsFiniteSet(Listed(rest) \cup {a})
      /\ Cardinality(Listed(rest) \cup {a}) \in
            {Cardinality(Listed(rest)), Cardinality(Listed(rest)) + 1}
    BY <1>3, FS_AddElement
<1>5. Cardinality(Listed(joined)) <= Cardinality(Listed(rest) \cup {a})
    BY <1>2, <1>4, FS_Subset
<1>6. /\ Cardinality(Listed(rest)) \in Nat /\ Cardinality(Listed(joined)) \in Nat
    BY <1>2, <1>3, <1>4, FS_Subset, FS_CardinalityType
<1>7. Cardinality(Listed(joined)) <= MaxAlerts
    BY <1>4, <1>5, <1>6, FeedAssumption
<1> QED
    BY <1>1, <1>2, <1>7

-----------------------------------------------------------------------------
\* A frame in transit is of an alert and a time.
LEMMA FrameType ==
    ASSUME TypeOK, frames # <<>>
    PROVE  /\ Head(frames).id \in Alerts
           /\ Head(frames).at \in Times
           /\ Tail(frames) \in Seq(Frame)
           /\ Len(Tail(frames)) <= MaxFrames
<1>1. frames \in Seq(Frame) /\ Len(frames) <= MaxFrames
    BY DEF TypeOK, Frame
<1>2. /\ Head(frames) \in Frame /\ Tail(frames) \in Seq(Frame)
      /\ Len(frames) \in Nat /\ Len(Tail(frames)) = Len(frames) - 1
    BY <1>1
<1>3. Len(Tail(frames)) <= MaxFrames
    BY <1>1, <1>2, FeedAssumption
<1> QED
    BY <1>2, <1>3 DEF Frame

\* TypeOK: every list stays a list of alerts and times, within its length.
THEOREM FeedTyped == Spec => []TypeOK
<1>1. Init => TypeOK
  <2> SUFFICES ASSUME Init PROVE TypeOK
    OBVIOUS
  <2>1. Unlisted \in List /\ Listed(Unlisted) = {}
    BY DEF Unlisted, List, Listed
  <2>2. Cardinality(Listed(shown)) <= MaxAlerts
    BY <2>1, FS_EmptySet, FeedAssumption DEF Init
  <2>3. 1 \in Times
    BY FeedAssumption DEF Times
  <2>4. polls \in [Polls -> [status : {"idle", "sent", "failed", "ok"}, list : List]]
    BY <2>1 DEF Init, Idle
  <2>5. served \in List
    BY <2>3 DEF Init, List
  <2>6. frames \in Seq(Frame) /\ Len(frames) <= MaxFrames
    BY FeedAssumption DEF Init
  <2> QED
    BY <2>1, <2>2, <2>3, <2>4, <2>5, <2>6 DEF Init, TypeOK, List, Frame
<1>2. TypeOK /\ [Next]_vars => TypeOK'
  <2> SUFFICES ASSUME TypeOK, [Next]_vars PROVE TypeOK'
    OBVIOUS
  <2>0. /\ served \in List /\ shown \in List
        /\ \A p \in Polls : polls[p].list \in List
        /\ polls \in [Polls -> [status : {"idle", "sent", "failed", "ok"}, list : List]]
    BY DEF TypeOK, List
  <2>a. Unlisted \in List
    BY DEF Unlisted, List
  <2>s. ASSUME NEW p \in Polls, Start(p)
        PROVE  polls' \in [Polls -> [status : {"idle", "sent", "failed", "ok"}, list : List]]
    BY <2>s, <2>0, <2>a DEF Start, Sent
  <2>1. CASE Clock
    <3>1. now' \in Times
      BY <2>1, FeedAssumption DEF Clock, TypeOK, Times
    <3> QED
      BY <2>1, <3>1 DEF Clock, TypeOK, surfaced, Listed
  <2>2. ASSUME NEW a \in Alerts, Detect(a) PROVE TypeOK'
    <3>1. served' \in List
      BY <2>2, <2>0 DEF Detect, List, TypeOK
    <3>2. frames' \in Seq(Frame) /\ Len(frames') <= MaxFrames
      <4>1. frames \in Seq(Frame) /\ Len(frames) <= MaxFrames /\ [id |-> a, at |-> now] \in Frame
        BY DEF TypeOK, Frame
      <4>2. CASE UNCHANGED frames
        BY <4>1, <4>2
      <4>3. CASE Len(frames) < MaxFrames /\ frames' = Append(frames, [id |-> a, at |-> now])
        <5>1. frames' \in Seq(Frame) /\ Len(frames') = Len(frames) + 1 /\ Len(frames) \in Nat
          BY <4>1, <4>3
        <5> QED
          BY <4>3, <5>1, FeedAssumption
      <4> QED
        BY <2>2, <4>2, <4>3 DEF Detect
    <3> QED
      BY <2>2, <3>1, <3>2 DEF Detect, TypeOK, surfaced, List, Listed, Frame
  <2>3. ASSUME NEW p \in Polls, TimerRefresh(p) \/ ManualRefresh(p) PROVE TypeOK'
    <3>1. polls' \in [Polls -> [status : {"idle", "sent", "failed", "ok"}, list : List]]
      BY <2>3, <2>s DEF TimerRefresh, ManualRefresh
    <3> QED
      BY <2>3, <3>1 DEF TimerRefresh, ManualRefresh, TypeOK, backend, surfaced, List, Listed
  <2>4. ASSUME NEW p \in Polls, AnswerAlerts(p) PROVE TypeOK'
    <3>1. PICK list \in Cuts(served, PollLimit) : polls' = [polls EXCEPT ![p] = Answered(list)]
      BY <2>4 DEF AnswerAlerts
    <3>2. list \in List
      BY <3>1, <2>0, CutIsList, FeedAssumption
    <3>3. polls' \in [Polls -> [status : {"idle", "sent", "failed", "ok"}, list : List]]
      BY <3>1, <3>2, <2>0 DEF Answered
    <3> QED
      BY <2>4, <3>3 DEF AnswerAlerts, TypeOK, backend, surfaced, List, Listed
  <2>5. ASSUME NEW p \in Polls, FailAlerts(p) PROVE TypeOK'
    <3>1. polls' \in [Polls -> [status : {"idle", "sent", "failed", "ok"}, list : List]]
      BY <2>5, <2>0, <2>a DEF FailAlerts, Failed
    <3> QED
      BY <2>5, <3>1 DEF FailAlerts, TypeOK, backend, surfaced, List, Listed
  <2>6. ASSUME NEW p \in Polls, Apply(p) PROVE TypeOK'
    <3>1. polls' \in [Polls -> [status : {"idle", "sent", "failed", "ok"}, list : List]]
      BY <2>6, <2>0, <2>a DEF Apply, Idle
    <3>2. CASE polls[p].status = "ok"
      <4>1. PICK list \in Cuts(polls[p].list, MaxAlerts) : ShowList(list) /\ MarkNew(list)
        BY <2>6, <3>2 DEF Apply
      <4>2. list \in List /\ Cardinality(Listed(list)) <= MaxAlerts
        BY <4>1, <2>0, CutIsList, FeedAssumption
      <4>3. shown' \in List /\ Cardinality(Listed(shown)') <= MaxAlerts
        BY <4>1, <4>2 DEF ShowList, Listed
      <4>4. seenIds' \in SUBSET Alerts /\ baseline' \in SUBSET Alerts /\ baselineSeen' \in BOOLEAN
        BY <4>1 DEF MarkNew, Listed, TypeOK
      <4>5. toasted' \in [Alerts -> Nat]
        BY <4>1 DEF MarkNew, TypeOK
      <4> QED
        BY <2>6, <3>1, <4>3, <4>4, <4>5 DEF Apply, TypeOK, backend, List
    <3>3. CASE polls[p].status # "ok"
      BY <2>6, <3>1, <3>3 DEF Apply, TypeOK, backend, surfaced, List, Listed
    <3> QED
      BY <3>2, <3>3
  <2>7. CASE Receive
    <3> DEFINE a == Head(frames).id
               at == Head(frames).at
    <3>1. a \in Alerts /\ at \in Times
      BY <2>7, FrameType DEF Receive
    <3>2. frames' \in Seq(Frame) /\ Len(frames') <= MaxFrames
      BY <2>7, FrameType DEF Receive
    <3>3. shown' \in List /\ Cardinality(Listed(shown)') <= MaxAlerts
      <4>1. CASE ~live \/ shown' = shown
        BY <2>7, <4>1, <2>0 DEF Receive, Listed, TypeOK
      <4>2. CASE live /\ a \notin seenIds
        <5>1. PICK rest \in Cuts([shown EXCEPT ![a] = Never], MaxAlerts - 1) :
                shown' = [rest EXCEPT ![a] = at]
          BY <2>7, <4>2 DEF Receive, Push
        <5>2. [shown EXCEPT ![a] = Never] \in List
          BY <2>0 DEF List
        <5>3. rest \in List /\ Cardinality(Listed(rest)) <= MaxAlerts - 1
          <6>1. \A list \in List : \A cut \in Cuts(list, MaxAlerts - 1) :
                    cut \in List /\ Cardinality(Listed(cut)) <= MaxAlerts - 1
            BY CutIsList, FeedAssumption
          <6> QED
            BY <5>1, <5>2, <6>1
        <5>4. shown' \in List /\ Cardinality(Listed(shown')) <= MaxAlerts
          <6>1. \A b \in Alerts, t \in Times :
                    /\ [rest EXCEPT ![b] = t] \in List
                    /\ Cardinality(Listed([rest EXCEPT ![b] = t])) <= MaxAlerts
            BY <5>3, JoinedList
          <6> QED
            BY <3>1, <5>1, <6>1
        <5> QED
          BY <5>4 DEF Listed
      <4>3. CASE live /\ a \in seenIds /\ shown' = [shown EXCEPT ![a] = at] /\ shown[a] # Never
        <5>1. shown' \in List
          BY <4>3, <3>1, <2>0 DEF List
        <5>2. Listed(shown)' = Listed(shown)
          BY <4>3, <3>1, <2>0 DEF List, Listed, Times, Never
        <5>3. Cardinality(Listed(shown)) <= MaxAlerts
          BY DEF TypeOK
        <5> QED
          BY <5>1, <5>2, <5>3
      <4> QED
        BY <2>7, <4>1, <4>2, <4>3 DEF Receive, Push
    <3>4. seenIds' \in SUBSET Alerts /\ toasted' \in [Alerts -> Nat]
      <4>1. seenIds \in SUBSET Alerts /\ toasted \in [Alerts -> Nat]
        BY DEF TypeOK
      <4>2. seenIds' \in {seenIds, seenIds \cup {a}}
        BY <2>7 DEF Receive, Surface
      <4>3. \/ toasted' = toasted
            \/ toasted' = [toasted EXCEPT ![a] = @ + 1]
        BY <2>7 DEF Receive, Surface
      <4>4. toasted' \in [Alerts -> Nat]
        BY <4>1, <4>3, <3>1
      <4> QED
        BY <4>1, <4>2, <4>4, <3>1
    <3> QED
      BY <2>7, <3>2, <3>3, <3>4 DEF Receive, TypeOK, backend, List, Frame
  <2>8. ASSUME NEW v \in BOOLEAN, LiveState(v) PROVE TypeOK'
    BY <2>8 DEF LiveState, TypeOK, backend, surfaced, List, Listed
  <2>9. ASSUME NEW v \in BOOLEAN, ToggleLiveFeed(v) PROVE TypeOK'
    <3>1. polls' \in [Polls -> [status : {"idle", "sent", "failed", "ok"}, list : List]]
      BY <2>9, <2>0, <2>s DEF ToggleLiveFeed
    <3> QED
      BY <2>9, <3>1 DEF ToggleLiveFeed, TypeOK, backend, surfaced, List, Listed
  <2>10. CASE UNCHANGED vars
    BY <2>10 DEF vars, backend, surfaced, TypeOK, Listed
  <2> QED
    BY <2>1, <2>2, <2>3, <2>4, <2>5, <2>6, <2>7, <2>8, <2>9, <2>10 DEF Next
<1> QED
    BY <1>1, <1>2, PTL DEF Spec

-----------------------------------------------------------------------------
\* What makes ToastedExactlyOnce inductive.
ToastInv == TypeOK /\ ToastedExactlyOnce /\ BaselineSeen

\* ToastedExactlyOnce: markNew and pushAlert share seenIds, and whichever of
\* them surfaces an alert first is the only one that toasts it.
THEOREM ToastsOnce == Spec => []ToastedExactlyOnce
<1>1. Init => ToastedExactlyOnce /\ BaselineSeen
    BY DEF Init, ToastedExactlyOnce, BaselineSeen, Listed, Unlisted
<1>2. ToastInv /\ [Next]_vars => (ToastedExactlyOnce /\ BaselineSeen)'
  <2> SUFFICES ASSUME ToastInv, [Next]_vars
               PROVE  ToastedExactlyOnce' /\ BaselineSeen'
    OBVIOUS
  <2>0. /\ TypeOK /\ shown \in List
        /\ Listed(shown) \subseteq seenIds
        /\ \A a \in Alerts : toasted[a] = IF a \in seenIds \ baseline THEN 1 ELSE 0
        /\ BaselineSeen
        /\ toasted \in [Alerts -> Nat]
    BY DEF ToastInv, ToastedExactlyOnce, TypeOK, List
  <2>1. CASE UNCHANGED <<shown, surfaced>>
    BY <2>0, <2>1 DEF surfaced, ToastedExactlyOnce, BaselineSeen, Listed
  <2>2. ASSUME NEW p \in Polls, Apply(p), polls[p].status = "ok"
        PROVE  ToastedExactlyOnce' /\ BaselineSeen'
    <3>1. PICK list : ShowList(list) /\ MarkNew(list)
      BY <2>2 DEF Apply
    <3> DEFINE fresh == Listed(list) \ seenIds
    <3>2. seenIds' = seenIds \cup fresh /\ baselineSeen' = TRUE
      BY <3>1 DEF MarkNew
    <3>3. Listed(shown)' \subseteq seenIds'
      BY <3>1, <3>2 DEF ShowList, Listed
    <3>4. CASE baselineSeen
      <4>1. /\ baseline' = baseline
            /\ \A a \in Alerts : toasted'[a] = toasted[a] + (IF a \in fresh THEN 1 ELSE 0)
        BY <3>1, <3>4 DEF MarkNew
      <4>2. ASSUME NEW a \in Alerts
            PROVE  toasted'[a] = IF a \in seenIds' \ baseline' THEN 1 ELSE 0
        <5>1. CASE a \in fresh
          BY <5>1, <4>1, <3>2, <2>0 DEF BaselineSeen
        <5>2. CASE a \notin fresh
          BY <5>2, <4>1, <3>2, <2>0
        <5> QED
          BY <5>1, <5>2
      <4> QED
        BY <4>1, <4>2, <3>2, <3>3, <2>0 DEF ToastedExactlyOnce, BaselineSeen
    <3>5. CASE ~baselineSeen
      <4>1. baseline = {} /\ baseline' = fresh /\ toasted' = toasted
        BY <3>1, <3>5, <2>0 DEF MarkNew, BaselineSeen
      <4>2. seenIds' \ baseline' = seenIds \ baseline
        BY <4>1, <3>2
      <4> QED
        BY <4>1, <4>2, <3>2, <3>3, <2>0 DEF ToastedExactlyOnce, BaselineSeen
    <3> QED
      BY <3>4, <3>5
  <2>3. ASSUME Receive, live
        PROVE  ToastedExactlyOnce' /\ BaselineSeen'
    <3> DEFINE a == Head(frames).id
               at == Head(frames).at
    <3>1. a \in Alerts /\ at \in Times
      BY <2>0, <2>3, FrameType DEF Receive
    <3>2. seenIds' = seenIds \cup {a} /\ baseline' = baseline /\ baselineSeen' = baselineSeen
      BY <2>3 DEF Receive, Surface
    <3>3. \A b \in Alerts : toasted'[b] = IF b \in seenIds' \ baseline' THEN 1 ELSE 0
      <4>1. CASE a \in seenIds
        BY <4>1, <3>2, <2>0, <2>3 DEF Receive, Surface
      <4>2. CASE a \notin seenIds
        <5>1. toasted' = [toasted EXCEPT ![a] = @ + 1]
          BY <4>2, <2>3 DEF Receive, Surface
        <5>2. a \notin baseline /\ toasted[a] = 0
          BY <4>2, <3>1, <2>0 DEF BaselineSeen
        <5> QED
          BY <5>1, <5>2, <3>1, <3>2, <2>0
      <4> QED
        BY <4>1, <4>2
    <3>4. Listed(shown)' \subseteq seenIds'
      <4>1. CASE a \notin seenIds
        <5>1. PICK rest \in Cuts([shown EXCEPT ![a] = Never], MaxAlerts - 1) :
                shown' = [rest EXCEPT ![a] = at]
          BY <2>3, <4>1 DEF Receive, Push
        <5>2. /\ [shown EXCEPT ![a] = Never] \in List
              /\ Listed([shown EXCEPT ![a] = Never]) \subseteq Listed(shown)
          BY <2>0 DEF List, Listed
        <5>3. rest \in List /\ Listed(rest) \subseteq Listed(shown)
          <6>1. \A list \in List : \A cut \in Cuts(list, MaxAlerts - 1) :
                    cut \in List /\ Listed(cut) \subseteq Listed(list)
            BY CutIsList, FeedAssumption
          <6> QED
            BY <5>1, <5>2, <6>1
        <5>4. Listed(shown') \subseteq Listed(rest) \cup {a}
          BY <5>1, <5>3, <3>1 DEF List, Listed
        <5> QED
          BY <5>3, <5>4, <3>2, <2>0 DEF Listed
      <4>2. CASE a \in seenIds
        <5>1. Listed(shown') \subseteq Listed(shown) \cup {a}
          BY <4>2, <2>3, <2>0, <3>1 DEF Receive, Push, List, Listed
        <5> QED
          BY <5>1, <4>2, <3>2, <2>0 DEF Listed
      <4> QED
        BY <4>1, <4>2
    <3> QED
      BY <3>2, <3>3, <3>4, <2>0 DEF ToastedExactlyOnce, BaselineSeen
  <2>4. CASE Next
    BY <2>1, <2>2, <2>3, <2>4
       DEF Next, Clock, Detect, TimerRefresh, ManualRefresh, AnswerAlerts, FailAlerts,
           Apply, Receive, LiveState, ToggleLiveFeed, surfaced
  <2>5. CASE UNCHANGED vars
    BY <2>1, <2>5 DEF vars
  <2> QED
    BY <2>4, <2>5
<1> QED
    BY <1>1, <1>2, FeedTyped, PTL DEF Spec, ToastInv

-----------------------------------------------------------------------------
(* Iteration.  What a recursive function over 0 .. n computes is proved by *)
(* induction over the set of the arguments that have the property.         *)

\* A set of numbers that holds 0 and the successors of its members holds them all.
LEMMA UpTo ==
    ASSUME NEW n \in Nat, NEW T, 0 \in T, \A i \in 1 .. n : i - 1 \in T => i \in T
    PROVE  \A i \in 0 .. n : i \in T
<1> DEFINE Bad == {i \in 0 .. n : i \notin T}
<1> SUFFICES ASSUME Bad # {} PROVE FALSE
  OBVIOUS
<1>1. PICK least \in Bad : \A i \in Bad : ~(<<i, least>> \in OpToRel(<, Nat))
  <2>1. Bad \subseteq Nat
    OBVIOUS
  <2> HIDE DEF Bad
  <2> QED
    BY <2>1, NatLessThanWellFounded, WFMin
<1>2. least \in Nat /\ least # 0 /\ least - 1 \in 0 .. n /\ least \in 1 .. n
  <2>1. least \in 0 .. n /\ least \notin T
    BY <1>1
  <2> QED
    BY <2>1
<1>3. least - 1 \in T
  <2>1. <<least - 1, least>> \in OpToRel(<, Nat)
    BY <1>2 DEF OpToRel
  <2> QED
    BY <1>1, <1>2, <2>1
<1>4. least \in T
  BY <1>2, <1>3
<1> QED
  BY <1>1, <1>4

\* A function can be iterated: what a recursive definition names exists.
LEMMA Iteration ==
    ASSUME NEW X, NEW start \in X, NEW n \in Nat, NEW step \in [1 .. n -> [X -> X]]
    PROVE  \E run \in [0 .. n -> X] :
              run[0] = start /\ \A i \in 1 .. n : run[i] = step[i][run[i - 1]]
<1> DEFINE Run(run, k) ==
             run[0] = start /\ \A i \in 1 .. k : run[i] = step[i][run[i - 1]]
           T == {k \in 0 .. n : \E run \in [0 .. k -> X] : Run(run, k)}
<1>1. 0 \in T
  <2> DEFINE one == [i \in 0 .. 0 |-> start]
  <2>1. one \in [0 .. 0 -> X] /\ Run(one, 0)
    OBVIOUS
  <2> HIDE DEF one, Run
  <2> QED
    BY <2>1
<1>2. ASSUME NEW k \in 1 .. n, k - 1 \in T PROVE k \in T
  <2>1. PICK run \in [0 .. (k - 1) -> X] : Run(run, k - 1)
    BY <1>2
  <2> DEFINE longer == [i \in 0 .. k |-> IF i = k THEN step[k][run[k - 1]] ELSE run[i]]
  <2>2. longer \in [0 .. k -> X]
    BY <2>1
  <2>3. longer[0] = start
    BY <2>1
  <2>4. ASSUME NEW i \in 1 .. k PROVE longer[i] = step[i][longer[i - 1]]
    <3>1. CASE i = k
      BY <2>1, <3>1
    <3>2. CASE i # k
      BY <2>1, <3>2
    <3> QED
      BY <3>1, <3>2
  <2>5. Run(longer, k)
    BY <2>3, <2>4
  <2>6. k \in 0 .. n
    OBVIOUS
  <2> HIDE DEF longer, Run
  <2> QED
    BY <2>2, <2>5, <2>6
<1>3. n \in T
  <2> HIDE DEF T
  <2>1. \A i \in 0 .. n : i \in T
    BY <1>1, <1>2, UpTo
  <2> QED
    BY <2>1
<1> QED
  BY <1>3

\* A set of numbers up to n that is not empty has a greatest one.
LEMMA GreatestExists ==
    ASSUME NEW n \in Nat, NEW S \in SUBSET (0 .. n), S # {}
    PROVE  \E greatest \in S : \A i \in S : greatest >= i
<1> DEFINE T == {i \in 0 .. n : (\E j \in S : j <= i) =>
                   \E greatest \in S : greatest <= i /\ \A j \in S : j <= i => j <= greatest}
<1>1. 0 \in T
  OBVIOUS
<1>2. ASSUME NEW i \in 1 .. n, i - 1 \in T PROVE i \in T
  <2>1. CASE i \in S
    <3>1. i <= i /\ \A j \in S : j <= i => j <= i
      OBVIOUS
    <3> QED
      BY <2>1, <3>1
  <2>2. CASE i \notin S
    <3>1. \A j \in S : j <= i => j <= i - 1
      BY <2>2
    <3>2. i - 1 <= i
      OBVIOUS
    <3>3. \A j \in S : j <= i - 1 => j <= i
      OBVIOUS
    <3> QED
      BY <1>2, <3>1, <3>3
  <2> QED
    BY <2>1, <2>2
<1>3. n \in T
  <2> HIDE DEF T
  <2>1. \A i \in 0 .. n : i \in T
    BY <1>1, <1>2, UpTo
  <2> QED
    BY <2>1
<1>4. \A i \in S : i \in Nat /\ i <= n
  OBVIOUS
<1> QED
  BY <1>3, <1>4

-----------------------------------------------------------------------------
(* LiveFeed, for any sockets and tasks and one request at a time.          *)

Elems(seq) == {seq[i] : i \in DOMAIN seq}
Distinct(seq) == \A i, j \in DOMAIN seq : seq[i] = seq[j] => i = j

\* The first element of a sequence, and the rest.
LEMMA HeadAndTail ==
    ASSUME NEW X, NEW seq \in Seq(X), seq # <<>>
    PROVE  /\ Head(seq) \in X /\ Tail(seq) \in Seq(X)
           /\ Elems(seq) = {Head(seq)} \cup Elems(Tail(seq))
           /\ Distinct(seq) => Distinct(Tail(seq)) /\ Head(seq) \notin Elems(Tail(seq))
<1>1. /\ Len(seq) \in Nat \ {0} /\ DOMAIN seq = 1 .. Len(seq)
      /\ Head(seq) = seq[1] /\ Tail(seq) \in Seq(X)
      /\ DOMAIN Tail(seq) = 1 .. (Len(seq) - 1)
      /\ \A i \in 1 .. (Len(seq) - 1) : Tail(seq)[i] = seq[i + 1]
  OBVIOUS
<1>2. \A i \in 1 .. Len(seq) : i = 1 \/ (i - 1 \in 1 .. (Len(seq) - 1) /\ seq[i] = Tail(seq)[i - 1])
  BY <1>1
<1>3. \A i \in 1 .. (Len(seq) - 1) : i + 1 \in 1 .. Len(seq) /\ i + 1 # 1
  BY <1>1
<1>4. Elems(seq) = {Head(seq)} \cup Elems(Tail(seq))
  <2> DEFINE n == Len(seq)
             rest == Tail(seq)
  <2>1. ASSUME NEW x \in Elems(seq) PROVE x = Head(seq) \/ x \in Elems(rest)
    <3>1. PICK i \in 1 .. n : x = seq[i]
      BY <1>1, <2>1 DEF Elems
    <3>2. i = 1 \/ (i - 1 \in DOMAIN rest /\ x = rest[i - 1])
      BY <1>1, <1>2, <3>1
    <3> HIDE DEF rest
    <3> QED
      BY <1>1, <3>1, <3>2 DEF Elems
  <2>2. ASSUME NEW x \in Elems(rest) PROVE x \in Elems(seq)
    BY <1>1, <1>3 DEF Elems
  <2>3. Head(seq) \in Elems(seq)
    BY <1>1 DEF Elems
  <2> QED
    BY <2>1, <2>2, <2>3
<1>5. ASSUME Distinct(seq)
      PROVE  Distinct(Tail(seq)) /\ Head(seq) \notin Elems(Tail(seq))
  BY <1>1, <1>3, <1>5 DEF Elems, Distinct
<1> QED
  BY <1>1, <1>4, <1>5

\* An element appended is one more element.
LEMMA Appended ==
    ASSUME NEW X, NEW seq \in Seq(X), NEW x \in X
    PROVE  /\ Append(seq, x) \in Seq(X)
           /\ Elems(Append(seq, x)) = Elems(seq) \cup {x}
           /\ (Distinct(seq) /\ x \notin Elems(seq)) => Distinct(Append(seq, x))
<1>1. /\ Len(seq) \in Nat /\ DOMAIN seq = 1 .. Len(seq)
      /\ Append(seq, x) \in Seq(X)
      /\ DOMAIN Append(seq, x) = 1 .. (Len(seq) + 1)
      /\ \A i \in 1 .. Len(seq) : Append(seq, x)[i] = seq[i]
      /\ Append(seq, x)[Len(seq) + 1] = x
  OBVIOUS
<1>2. \A i \in 1 .. (Len(seq) + 1) : i \in 1 .. Len(seq) \/ i = Len(seq) + 1
  BY <1>1
<1> QED
  BY <1>1, <1>2 DEF Elems, Distinct

\* Removing the sockets of a set from the list leaves the others, once each.
LEMMA Removed ==
    ASSUME NEW X, NEW seq \in Seq(X), NEW S
    PROVE  LET rest == Without(seq, S)
           IN  /\ rest \in Seq(X)
               /\ Elems(rest) = Elems(seq) \ S
               /\ Distinct(seq) => Distinct(rest)
<1> DEFINE n == Len(seq)
           step == [i \in 1 .. n |-> [r \in Seq(X) |->
                       IF seq[i] \in S THEN r ELSE Append(r, seq[i])]]
           IsKept(kept) == kept = [i \in 0 .. n |->
                       IF i = 0 THEN <<>>
                       ELSE IF seq[i] \in S THEN kept[i - 1]
                       ELSE Append(kept[i - 1], seq[i])]
           kept == CHOOSE k : IsKept(k)
<1>1. n \in Nat /\ DOMAIN seq = 1 .. n /\ (\A i \in 1 .. n : seq[i] \in X) /\ <<>> \in Seq(X)
  OBVIOUS
<1>2. \A i \in 1 .. n : \A r \in Seq(X) : Append(r, seq[i]) \in Seq(X)
  BY <1>1
<1>3. step \in [1 .. n -> [Seq(X) -> Seq(X)]]
  BY <1>2
<1>4. PICK run \in [0 .. n -> Seq(X)] :
        run[0] = <<>> /\ \A i \in 1 .. n : run[i] = step[i][run[i - 1]]
  <2> DEFINE Y == Seq(X)
             start == <<>>
  <2>1. n \in Nat /\ start \in Y /\ step \in [1 .. n -> [Y -> Y]]
    BY <1>1, <1>3
  <2> HIDE DEF step, n, Y, start
  <2>2. \E run \in [0 .. n -> Y] :
          run[0] = start /\ \A i \in 1 .. n : run[i] = step[i][run[i - 1]]
    BY <2>1, Iteration
  <2> QED
    BY <2>2 DEF Y, start
<1>5. IsKept(run)
  <2>1. ASSUME NEW i \in 1 .. n
        PROVE  run[i] = IF seq[i] \in S THEN run[i - 1] ELSE Append(run[i - 1], seq[i])
    <3> HIDE DEF n
    <3>1. i - 1 \in 0 .. n
      BY <1>1
    <3>2. run[i - 1] \in Seq(X)
      BY <3>1
    <3> QED
      BY <1>4, <3>2
  <2> HIDE DEF step, n
  <2>2. \A i \in 0 .. n : i = 0 \/ i \in 1 .. n
    BY <1>1
  <2>3. \A i \in 0 .. n :
          run[i] = IF i = 0 THEN <<>>
                   ELSE IF seq[i] \in S THEN run[i - 1]
                   ELSE Append(run[i - 1], seq[i])
    BY <1>1, <1>4, <2>1, <2>2
  <2>4. run = [i \in 0 .. n |-> run[i]]
    OBVIOUS
  <2> QED
    BY <2>3, <2>4
<1>6. IsKept(kept)
  <2> HIDE DEF IsKept
  <2> QED
    BY <1>5
<1>7. /\ kept[0] = <<>>
      /\ \A i \in 1 .. n :
            kept[i] = IF seq[i] \in S THEN kept[i - 1] ELSE Append(kept[i - 1], seq[i])
  <2> HIDE DEF kept, n
  <2>1. ASSUME NEW i \in 0 .. n
        PROVE  kept[i] = IF i = 0 THEN <<>>
                         ELSE IF seq[i] \in S THEN kept[i - 1]
                         ELSE Append(kept[i - 1], seq[i])
    BY <1>6
  <2>2. 0 \in 0 .. n /\ \A i \in 1 .. n : i \in 0 .. n /\ i # 0
    BY <1>1
  <2> HIDE DEF IsKept
  <2> QED
    BY <2>1, <2>2
<1> DEFINE Before(i) == {seq[j] : j \in 1 .. i}
           T == {i \in 0 .. n : /\ kept[i] \in Seq(X)
                                /\ Elems(kept[i]) = Before(i) \ S
                                /\ Distinct(seq) => Distinct(kept[i])}
<1>8. 0 \in T
  <2>0. 0 \in 0 .. n
    BY <1>1
  <2>1. Elems(<<>>) = {} /\ Distinct(<<>>)
    BY DEF Elems, Distinct
  <2>2. Before(0) = {}
    OBVIOUS
  <2> HIDE DEF kept, n, Before
  <2>3. kept[0] \in Seq(X) /\ Elems(kept[0]) = Before(0) \ S /\ Distinct(kept[0])
    BY <1>1, <1>7, <2>1, <2>2
  <2> QED
    BY <2>0, <2>3
<1>9. ASSUME NEW i \in 1 .. n, i - 1 \in T PROVE i \in T
  <2> HIDE DEF kept, n
  <2>1. Before(i) = Before(i - 1) \cup {seq[i]} /\ i \in 0 .. n /\ seq[i] \in X
    BY <1>1
  <2>2. /\ kept[i - 1] \in Seq(X)
        /\ Elems(kept[i - 1]) = Before(i - 1) \ S
        /\ Distinct(seq) => Distinct(kept[i - 1])
    BY <1>9
  <2>3. Distinct(seq) => seq[i] \notin Before(i - 1)
    <3>1. \A j \in 1 .. (i - 1) : j \in 1 .. n /\ j # i
      BY <1>1
    <3> QED
      BY <1>1, <3>1 DEF Distinct
  <2> HIDE DEF Before
  <2>4. CASE seq[i] \in S
    BY <1>7, <2>1, <2>2, <2>4
  <2>5. CASE seq[i] \notin S
    <3>1. kept[i] = Append(kept[i - 1], seq[i])
      BY <1>7, <2>5
    <3>2. /\ kept[i] \in Seq(X)
          /\ Elems(kept[i]) = Elems(kept[i - 1]) \cup {seq[i]}
          /\ (Distinct(kept[i - 1]) /\ seq[i] \notin Elems(kept[i - 1])) => Distinct(kept[i])
      BY <2>1, <2>2, <3>1, Appended
    <3> QED
      BY <2>1, <2>2, <2>3, <2>5, <3>2
  <2> QED
    BY <2>4, <2>5
<1>10. n \in T
  <2> HIDE DEF T
  <2>1. \A i \in 0 .. n : i \in T
    BY <1>1, <1>8, <1>9, UpTo
  <2> QED
    BY <1>1, <2>1
<1>11. Without(seq, S) = kept[n]
  BY DEF Without
<1>12. Before(n) = Elems(seq)
  BY <1>1 DEF Elems
<1> HIDE DEF kept, Before
<1> QED
  BY <1>10, <1>11, <1>12
\* A set given by its elements, and a list without repetition, in LiveFeed's words.
LEMMA ListWords ==
    ASSUME NEW seq
    PROVE  /\ ToSet(seq) = Elems(seq)
           /\ IsInjective(seq) <=> Distinct(seq)
  BY DEF ToSet, IsInjective, Elems, Distinct

\* A broadcast to the sockets of a list without repetition is well-formed.
LEMMA SendingTyped ==
    ASSUME NEW frame \in Live \cup Control,
           NEW seq \in Seq(Sockets), seq # <<>>, Distinct(seq), NEW stale \in SUBSET Sockets
    PROVE  /\ Sending(frame, seq, stale) \in Broadcast
           /\ Distinct(Sending(frame, seq, stale).todo)
           /\ Sending(frame, seq, stale).at \notin
                Elems(Sending(frame, seq, stale).todo)
  BY HeadAndTail DEF Sending, Broadcast

\* LiveFeed's type invariant, in the words of the lemmas above.
LiveTyped ==
    /\ enabled \in BOOLEAN
    /\ connections \in Seq(Sockets) /\ Distinct(connections)
    /\ peer \in [Sockets -> {"open", "gone", "dead"}]
    /\ cast \in [Tasks -> Broadcast \cup {NoBroadcast}]
    /\ \A t \in Tasks :
         Distinct(cast[t].todo) /\ cast[t].at \notin Elems(cast[t].todo)
    /\ push \in [PushTasks -> 0 .. Recipients]
    /\ learned \in [Sockets -> Control \cup {"nothing"}]
    /\ present \subseteq Sockets

LEMMA LiveTypedIsTypeOK == LiveTyped <=> LiveTypeOK
  BY ListWords DEF LiveTyped, LiveTypeOK

LEMMA IdleIsQuiet ==
    /\ NoBroadcast.frame = "none" /\ NoBroadcast.at = none /\ NoBroadcast.todo = <<>>
    /\ NoBroadcast.stale = {} /\ Distinct(<<>>) /\ Elems(<<>>) = {}
    /\ NoBroadcast \notin Broadcast
  BY DEF NoBroadcast, Broadcast, Live, Streams, Control, Distinct, Elems

\* What a client receives is a frame of the switch, and only that client's last
\* word changes.
LEMMA DeliverTyped ==
    ASSUME LiveTyped, NEW s \in Sockets, NEW frame, Deliver(s, frame)
    PROVE  learned' \in [Sockets -> Control \cup {"nothing"}]
  BY DEF LiveTyped, Deliver

\* A task that starts a broadcast, or has nobody to tell, leaves the tables typed.
LEMMA StartBroadcastTyped ==
    ASSUME LiveTyped, NEW t \in Tasks, NEW frame \in Live \cup Control,
           StartBroadcast(t, frame)
    PROVE  /\ cast' \in [Tasks -> Broadcast \cup {NoBroadcast}]
           /\ \A u \in Tasks :
                Distinct(cast'[u].todo) /\ cast'[u].at \notin Elems(cast'[u].todo)
           /\ learned' \in [Sockets -> Control \cup {"nothing"}]
<1>1. CASE connections = <<>>
  BY <1>1 DEF LiveTyped, StartBroadcast
<1>2. CASE connections # <<>>
  <2>1. /\ cast' = [cast EXCEPT ![t] = Sending(frame, connections, {})]
        /\ Deliver(Head(connections), frame)
    BY <1>2 DEF StartBroadcast
  <2>2. Head(connections) \in Sockets
    BY <1>2, HeadAndTail DEF LiveTyped
  <2>3. learned' \in [Sockets -> Control \cup {"nothing"}]
    BY <2>1, <2>2, DeliverTyped
  <2>4. /\ Sending(frame, connections, {}) \in Broadcast
        /\ Distinct(Sending(frame, connections, {}).todo)
        /\ Sending(frame, connections, {}).at \notin
             Elems(Sending(frame, connections, {}).todo)
    BY <1>2, SendingTyped DEF LiveTyped
  <2> QED
    BY <2>1, <2>3, <2>4 DEF LiveTyped
<1> QED
  BY <1>1, <1>2

\* The sockets of a set are taken off the list; the others stay on it.
LEMMA DisconnectTyped ==
    ASSUME LiveTyped, NEW S, Disconnect(S)
    PROVE  /\ connections' \in Seq(Sockets) /\ Distinct(connections')
           /\ Elems(connections') = Elems(connections) \ S
           /\ present' = present \ S
  BY Removed DEF LiveTyped, Disconnect
\* The tables stay typed.
LEMMA LiveStepTyped ==
    ASSUME LiveTyped, [LiveNext]_liveVars
    PROVE  LiveTyped'
<1> USE LiveAssumption
<1>0. /\ AlertTasks \subseteq Tasks /\ Requests \subseteq Tasks
      /\ publisher \in Tasks
  BY DEF Tasks
<1>1. ASSUME NEW r \in Requests, NEW v \in BOOLEAN, SetLiveState(r, v)
      PROVE  LiveTyped'
  <2>1. StateFrame(v) \in Live \cup Control
    BY DEF StateFrame, Control
  <2>2. Elems(connections) \subseteq Sockets
    BY DEF LiveTyped, Elems
  <2>3. present' \subseteq Sockets
    BY <1>1, <2>2, ListWords DEF SetLiveState, Connected
  <2> QED
    BY <1>0, <1>1, <2>1, <2>3, StartBroadcastTyped DEF LiveTyped, SetLiveState
<1>2. ASSUME NEW t \in AlertTasks, PublishAlert(t)
      PROVE  LiveTyped'
  <2>1. "alert" \in Live \cup Control
    BY DEF Live
  <2> QED
    BY <1>0, <1>2, <2>1, StartBroadcastTyped DEF LiveTyped, PublishAlert
<1>3. CASE PublishAll
  <2>1. "metrics" \in Live \cup Control
    BY DEF Live, Streams
  <2> QED
    BY <1>0, <1>3, <2>1, StartBroadcastTyped DEF LiveTyped, PublishAll
<1>4. ASSUME NEW t \in Tasks, NEW sent \in BOOLEAN, Resume(t, sent)
      PROVE  LiveTyped'
  <2> DEFINE b == cast[t]
             stale == IF sent THEN b.stale ELSE b.stale \cup {b.at}
  <2>1. /\ b # NoBroadcast /\ b.todo # <<>>
        /\ cast' = [cast EXCEPT ![t] = Sending(b.frame, b.todo, stale)]
        /\ Deliver(Head(b.todo), b.frame)
        /\ UNCHANGED <<enabled, connections, peer, push, present>>
    BY <1>4 DEF Resume
  <2>2. b \in Broadcast /\ Distinct(b.todo)
    BY <2>1 DEF LiveTyped
  <2>3. /\ b.frame \in Live \cup Control /\ b.todo \in Seq(Sockets)
        /\ stale \in SUBSET Sockets
    BY <2>2 DEF Broadcast
  <2> HIDE DEF b, stale
  <2>4. Head(b.todo) \in Sockets
    BY <2>1, <2>3, HeadAndTail
  <2>5. learned' \in [Sockets -> Control \cup {"nothing"}]
    BY <2>1, <2>4, DeliverTyped
  <2>6. /\ Sending(b.frame, b.todo, stale) \in Broadcast
        /\ Distinct(Sending(b.frame, b.todo, stale).todo)
        /\ Sending(b.frame, b.todo, stale).at \notin
             Elems(Sending(b.frame, b.todo, stale).todo)
    BY <2>1, <2>2, <2>3, SendingTyped
  <2> QED
    BY <2>1, <2>5, <2>6 DEF LiveTyped
<1>5. ASSUME NEW t \in Tasks, NEW sent \in BOOLEAN, Finish(t, sent)
      PROVE  LiveTyped'
  <2> DEFINE b == cast[t]
             stale == IF sent THEN b.stale ELSE b.stale \cup {b.at}
  <2>1. /\ Disconnect(stale)
        /\ IF b.frame = "metrics" /\ connections' # <<>>
           THEN cast' = [cast EXCEPT ![t] = Sending("engine_state", connections', {})]
           ELSE cast' = [cast EXCEPT ![t] = NoBroadcast]
        /\ UNCHANGED <<enabled, peer, push, learned>>
    BY <1>5 DEF Finish
  <2> HIDE DEF b, stale
  <2>2. /\ connections' \in Seq(Sockets) /\ Distinct(connections')
        /\ present' = present \ stale
    BY <2>1, DisconnectTyped
  <2>3. "engine_state" \in Live \cup Control
    BY DEF Live, Streams
  <2>4. connections' # <<>> =>
          /\ Sending("engine_state", connections', {}) \in Broadcast
          /\ Distinct(Sending("engine_state", connections', {}).todo)
          /\ Sending("engine_state", connections', {}).at \notin
               Elems(Sending("engine_state", connections', {}).todo)
    BY <2>2, <2>3, SendingTyped
  <2>5. /\ cast' \in [Tasks -> Broadcast \cup {NoBroadcast}]
        /\ \A u \in Tasks :
             Distinct(cast'[u].todo) /\ cast'[u].at \notin Elems(cast'[u].todo)
    BY <2>1, <2>4, IdleIsQuiet DEF LiveTyped
  <2> QED
    BY <2>1, <2>2, <2>5 DEF LiveTyped
<1>6. ASSUME NEW p \in PushTasks, Notify(p) \/ NextRecipient(p)
      PROVE  LiveTyped'
  <2>1. push[p] \in 0 .. Recipients
    BY DEF LiveTyped
  <2>2. push' \in [PushTasks -> 0 .. Recipients]
    <3>1. CASE Notify(p)
      BY <3>1 DEF LiveTyped, Notify
    <3>2. CASE NextRecipient(p)
      BY <2>1, <3>2 DEF LiveTyped, NextRecipient
    <3> QED
      BY <1>6, <3>1, <3>2
  <2> QED
    BY <1>6, <2>2 DEF LiveTyped, Notify, NextRecipient
<1>7. ASSUME NEW s \in Sockets, Connect(s)
      PROVE  LiveTyped'
  <2>1. s \notin Elems(connections)
    BY <1>7, ListWords DEF Connect, InUse, Connected
  <2>2. connections' \in Seq(Sockets) /\ Distinct(connections')
    BY <1>7, <2>1, Appended DEF LiveTyped, Connect
  <2> QED
    BY <1>7, <2>2 DEF LiveTyped, Connect
<1>8. ASSUME NEW s \in Sockets, Leave(s) \/ EndpointFails(s)
      PROVE  LiveTyped'
  BY <1>8 DEF LiveTyped, Leave, EndpointFails
<1>9. ASSUME NEW s \in Sockets, EndpointEnds(s)
      PROVE  LiveTyped'
  <2>1. Disconnect({s})
    BY <1>9 DEF EndpointEnds
  <2> QED
    BY <1>9, <2>1, DisconnectTyped DEF LiveTyped, EndpointEnds
<1>10. CASE UNCHANGED liveVars
  BY <1>10 DEF LiveTyped, liveVars
<1> QED
  BY <1>1, <1>2, <1>3, <1>4, <1>5, <1>6, <1>7, <1>8, <1>9, <1>10 DEF LiveNext
\* The tables of the live feed are well-typed, and no socket is listed twice or
\* served twice by one broadcast: LiveTypeOK.
THEOREM LiveFeedTyped == LiveSpec => []LiveTypeOK
<1>1. LiveInit => LiveTyped
  <2> SUFFICES ASSUME LiveInit PROVE LiveTyped
    OBVIOUS
  <2>1. <<>> \in Seq(Sockets) /\ Distinct(<<>>)
    BY DEF Distinct
  <2>2. \A t \in Tasks : cast[t] = NoBroadcast
    BY DEF LiveInit
  <2> QED
    BY <2>1, <2>2, IdleIsQuiet, LiveAssumption DEF LiveTyped, LiveInit
<1>2. LiveTyped /\ [LiveNext]_liveVars => LiveTyped'
  BY LiveStepTyped
<1>3. LiveTyped => LiveTypeOK
  BY LiveTypedIsTypeOK
<1> QED
  BY <1>1, <1>2, <1>3, PTL DEF LiveSpec

-----------------------------------------------------------------------------
(* What clients know of the switch.  While one request is handled at a     *)
(* time, only its broadcast carries control frames, they carry the value   *)
(* the switch has, and a client that was there when it was set and has not *)
(* heard of it is still to be served by that broadcast.                    *)

\* The client of s knows the switch, or the broadcast of request r will tell it.
WillKnow(r, s) ==
    \/ learned[s] = StateFrame(enabled)
    \/ s \in Elems(cast[r].todo)

SwitchInv(r) ==
    /\ LiveTyped
    /\ present \subseteq Elems(connections)
    /\ \A t \in Tasks \ {r} : cast[t].frame \notin Control
    /\ cast[r] # NoBroadcast => cast[r].frame = StateFrame(enabled)
    /\ \A s \in present : peer[s] = "open" => WillKnow(r, s)

\* A control frame is no frame of a live stream.
LEMMA ControlIsNotLive ==
    /\ \A v : StateFrame(v) \in Control
    /\ \A frame \in Live : frame \notin Control
    /\ "alert" \in Live /\ "metrics" \in Live /\ "engine_state" \in Live
    /\ NoBroadcast.frame \notin Control
  BY DEF StateFrame, Control, Live, Streams, NoBroadcast

\* Setting the switch: the first client listed is told, the others wait for it.
LEMMA SwitchSet ==
    ASSUME NEW r, Requests = {r}, SwitchInv(r), LiveTyped',
           NEW v \in BOOLEAN, SetLiveState(r, v)
    PROVE  SwitchInv(r)'
<1>1. /\ enabled' = v /\ present' = Elems(connections)
      /\ StartBroadcast(r, StateFrame(v))
      /\ UNCHANGED <<connections, peer>>
  BY ListWords DEF SetLiveState, Connected
<1>2. r \in Tasks
  BY DEF Tasks
<1>3. StateFrame(v) \in Control
  BY ControlIsNotLive
<1>4. CASE connections = <<>>
  <2>1. UNCHANGED <<cast, learned>> /\ present' = {}
    BY <1>1, <1>4 DEF StartBroadcast, Elems
  <2>2. cast[r] = NoBroadcast
    BY DEF SetLiveState
  <2> QED
    BY <1>1, <2>1, <2>2 DEF SwitchInv
<1>5. CASE connections # <<>>
  <2>1. /\ cast' = [cast EXCEPT ![r] = Sending(StateFrame(v), connections, {})]
        /\ Deliver(Head(connections), StateFrame(v))
    BY <1>1, <1>5 DEF StartBroadcast
  <2>2. /\ Head(connections) \in Sockets
        /\ Elems(connections) = {Head(connections)} \cup Elems(Tail(connections))
    BY <1>5, HeadAndTail DEF SwitchInv, LiveTyped
  <2>3. cast'[r].frame = StateFrame(v) /\ cast'[r].todo = Tail(connections)
    BY <1>2, <2>1 DEF Sending, SwitchInv, LiveTyped
  <2>4. \A t \in Tasks \ {r} : cast'[t] = cast[t]
    BY <2>1 DEF SwitchInv, LiveTyped
  <2>5. peer[Head(connections)] = "open" => learned'[Head(connections)] = StateFrame(v)
    BY <1>3, <2>1, <2>2 DEF Deliver, SwitchInv, LiveTyped
  <2>6. ASSUME NEW s \in present', peer'[s] = "open" PROVE WillKnow(r, s)'
    BY <1>1, <2>2, <2>3, <2>5, <2>6 DEF WillKnow
  <2> QED
    BY <1>1, <2>3, <2>4, <2>6 DEF SwitchInv
<1> QED
  BY <1>4, <1>5

\* Another outlet that starts to send tells nobody anything about the switch.
LEMMA StreamStarts ==
    ASSUME NEW r, r \in Tasks, SwitchInv(r), LiveTyped',
           NEW t \in Tasks, t # r, NEW frame \in Live,
           StartBroadcast(t, frame), UNCHANGED <<enabled, connections, peer, present>>
    PROVE  SwitchInv(r)'
<1>1. frame \notin Control
  BY ControlIsNotLive
<1>2. cast' = [cast EXCEPT ![t] = Sending(frame, connections, {})] \/ cast' = cast
  BY DEF StartBroadcast
<1>3. learned' = learned
  BY <1>1 DEF StartBroadcast, Deliver
<1>4. cast'[r] = cast[r] /\ \A u \in Tasks \ {t} : cast'[u] = cast[u]
  BY <1>2 DEF SwitchInv, LiveTyped
<1>5. cast'[t].frame \notin Control
  BY <1>1, <1>2 DEF SwitchInv, LiveTyped, Sending
<1>6. \A s : WillKnow(r, s) => WillKnow(r, s)'
  BY <1>3, <1>4 DEF WillKnow
<1> QED
  BY <1>4, <1>5, <1>6 DEF SwitchInv

\* A send that ends and is followed by another: the next socket has its frame.
LEMMA BroadcastGoesOn ==
    ASSUME NEW r, r \in Tasks, SwitchInv(r), LiveTyped',
           NEW t \in Tasks, NEW sent \in BOOLEAN, Resume(t, sent)
    PROVE  SwitchInv(r)'
<1> DEFINE b == cast[t]
           stale == IF sent THEN b.stale ELSE b.stale \cup {b.at}
<1>1. /\ b # NoBroadcast /\ b.todo # <<>>
      /\ cast' = [cast EXCEPT ![t] = Sending(b.frame, b.todo, stale)]
      /\ Deliver(Head(b.todo), b.frame)
      /\ UNCHANGED <<enabled, connections, peer, present>>
  BY DEF Resume
<1>2. /\ b.todo \in Seq(Sockets) /\ Head(b.todo) \in Sockets
      /\ Elems(b.todo) = {Head(b.todo)} \cup Elems(Tail(b.todo))
  <2>1. b.todo \in Seq(Sockets)
    BY <1>1 DEF SwitchInv, LiveTyped, Broadcast
  <2> HIDE DEF b
  <2> QED
    BY <1>1, <2>1, HeadAndTail
<1>3. cast'[t].frame = b.frame /\ cast'[t].todo = Tail(b.todo)
  BY <1>1 DEF Sending, SwitchInv, LiveTyped
<1>4. \A u \in Tasks \ {t} : cast'[u] = cast[u]
  BY <1>1 DEF SwitchInv, LiveTyped
<1>5. CASE t # r
  <2>1. b.frame \notin Control
    BY <1>5 DEF SwitchInv
  <2>2. learned' = learned
    BY <1>1, <2>1 DEF Deliver
  <2>3. \A s : WillKnow(r, s) => WillKnow(r, s)'
    BY <1>1, <1>4, <1>5, <2>2 DEF WillKnow
  <2> QED
    BY <1>1, <1>3, <1>4, <1>5, <2>1, <2>3 DEF SwitchInv
<1>6. CASE t = r
  <2>1. b.frame = StateFrame(enabled) /\ b.frame \in Control
    BY <1>1, <1>6, ControlIsNotLive DEF SwitchInv
  <2>2. \A s \in Sockets :
          /\ s = Head(b.todo) /\ peer[s] = "open" => learned'[s] = StateFrame(enabled)
          /\ learned[s] = StateFrame(enabled) =>
               learned'[s] = StateFrame(enabled)
    BY <1>1, <2>1 DEF Deliver, SwitchInv, LiveTyped
  <2>3. ASSUME NEW s \in present', peer'[s] = "open" PROVE WillKnow(r, s)'
    <3>1. s \in Sockets /\ peer[s] = "open" /\ WillKnow(r, s)
      BY <1>1, <2>3 DEF SwitchInv, LiveTyped
    <3> QED
      BY <1>1, <1>2, <1>3, <1>6, <2>2, <3>1 DEF WillKnow
  <2> QED
    BY <1>1, <1>3, <1>4, <1>6, <2>1, <2>3 DEF SwitchInv
<1> QED
  BY <1>5, <1>6

\* The last send of a broadcast ends: the request's broadcast has told everyone.
LEMMA BroadcastEnds ==
    ASSUME NEW r, r \in Tasks, SwitchInv(r), LiveTyped',
           NEW t \in Tasks, NEW sent \in BOOLEAN, Finish(t, sent)
    PROVE  SwitchInv(r)'
<1> DEFINE b == cast[t]
           stale == IF sent THEN b.stale ELSE b.stale \cup {b.at}
<1>1. /\ b # NoBroadcast /\ b.todo = <<>> /\ Disconnect(stale)
      /\ IF b.frame = "metrics" /\ connections' # <<>>
         THEN cast' = [cast EXCEPT ![t] = Sending("engine_state", connections', {})]
         ELSE cast' = [cast EXCEPT ![t] = NoBroadcast]
      /\ UNCHANGED <<enabled, peer, learned>>
  BY DEF Finish
<1>2. /\ Elems(connections') = Elems(connections) \ stale
      /\ present' = present \ stale
  BY <1>1, DisconnectTyped DEF SwitchInv
<1>3. \A u \in Tasks \ {t} : cast'[u] = cast[u]
  BY <1>1 DEF SwitchInv, LiveTyped
<1>4. cast'[t].frame \notin Control
  BY <1>1, ControlIsNotLive DEF SwitchInv, LiveTyped, Sending
<1>5. t = r => cast'[r] = NoBroadcast
  BY <1>1, ControlIsNotLive DEF SwitchInv, LiveTyped, StateFrame
<1>6. \A s : WillKnow(r, s) => WillKnow(r, s)'
  <2>1. t = r => Elems(cast[r].todo) = {}
    BY <1>1 DEF Elems
  <2> QED
    BY <1>1, <1>3, <2>1 DEF WillKnow
<1> QED
  BY <1>1, <1>2, <1>3, <1>4, <1>5, <1>6 DEF SwitchInv

\* What clients know of the switch survives every step.
LEMMA SwitchStep ==
    ASSUME NEW r, Requests = {r}, SwitchInv(r), [LiveNext]_liveVars
    PROVE  SwitchInv(r)'
<1>0. /\ LiveTyped'
      /\ AlertTasks \subseteq Tasks /\ r \in Tasks /\ publisher \in Tasks
      /\ r \notin AlertTasks /\ r # publisher
  BY LiveStepTyped, LiveAssumption DEF SwitchInv, Tasks
<1>1. ASSUME NEW v \in BOOLEAN, SetLiveState(r, v)
      PROVE  SwitchInv(r)'
  BY <1>0, <1>1, SwitchSet
<1>2. ASSUME NEW t \in AlertTasks, PublishAlert(t)
      PROVE  SwitchInv(r)'
  BY <1>0, <1>2, StreamStarts, ControlIsNotLive DEF PublishAlert
<1>3. CASE PublishAll
  BY <1>0, <1>3, StreamStarts, ControlIsNotLive DEF PublishAll
<1>4. ASSUME NEW t \in Tasks, NEW sent \in BOOLEAN,
             Resume(t, sent) \/ Finish(t, sent)
      PROVE  SwitchInv(r)'
  BY <1>0, <1>4, BroadcastGoesOn, BroadcastEnds
<1>5. ASSUME NEW p \in PushTasks, Notify(p) \/ NextRecipient(p)
      PROVE  SwitchInv(r)'
  BY <1>0, <1>5 DEF SwitchInv, WillKnow, Notify, NextRecipient
<1>6. ASSUME NEW s \in Sockets, Connect(s)
      PROVE  SwitchInv(r)'
  <2>1. s \notin Elems(connections)
    BY <1>6, ListWords DEF Connect, InUse, Connected
  <2>2. Elems(connections') = Elems(connections) \cup {s}
    BY <1>6, Appended DEF SwitchInv, LiveTyped, Connect
  <2>3. /\ UNCHANGED <<enabled, cast, learned, present>>
        /\ \A u \in present : peer'[u] = peer[u]
    BY <1>6, <2>1 DEF SwitchInv, LiveTyped, Connect
  <2> QED
    BY <1>0, <2>2, <2>3 DEF SwitchInv, WillKnow
<1>7. ASSUME NEW s \in Sockets, Leave(s) \/ EndpointFails(s)
      PROVE  SwitchInv(r)'
  <2>1. /\ UNCHANGED <<enabled, connections, cast, present>>
        /\ peer'[s] # "open"
        /\ \A u \in Sockets \ {s} : peer'[u] = peer[u] /\ learned'[u] = learned[u]
    BY <1>7 DEF SwitchInv, LiveTyped, Leave, EndpointFails
  <2>2. \A u \in present : peer'[u] = "open" => WillKnow(r, u)'
    BY <2>1 DEF SwitchInv, LiveTyped, WillKnow
  <2> QED
    BY <1>0, <2>1, <2>2 DEF SwitchInv
<1>8. ASSUME NEW s \in Sockets, EndpointEnds(s)
      PROVE  SwitchInv(r)'
  <2>1. /\ Disconnect({s}) /\ UNCHANGED <<enabled, cast, learned>>
        /\ peer' = [peer EXCEPT ![s] = "dead"]
    BY <1>8 DEF EndpointEnds
  <2>2. /\ Elems(connections') = Elems(connections) \ {s}
        /\ present' = present \ {s}
    BY <2>1, DisconnectTyped DEF SwitchInv
  <2>3. \A u \in present' : peer'[u] = peer[u]
    BY <2>1, <2>2 DEF SwitchInv, LiveTyped
  <2> QED
    BY <1>0, <2>1, <2>2, <2>3 DEF SwitchInv, WillKnow
<1>9. CASE UNCHANGED liveVars
  BY <1>0, <1>9 DEF SwitchInv, WillKnow, liveVars
<1> QED
  BY <1>1, <1>2, <1>3, <1>4, <1>5, <1>6, <1>7, <1>8, <1>9 DEF LiveNext

\* While requests are handled one at a time, a client that was listed when the
\* switch was last set, and still is, has its value as the last word once no
\* request is being handled: LiveFeed's ClientsKnowTheSwitch, for any number of
\* clients, alert tasks and pushes, and whatever connects, leaves or fails.
THEOREM SwitchKnown ==
    ASSUME NEW CONSTANT request, Requests = {request}
    PROVE  LiveSpec => []ClientsKnowTheSwitch
<1>1. LiveInit => SwitchInv(request)
  <2> SUFFICES ASSUME LiveInit PROVE SwitchInv(request)
    OBVIOUS
  <2>1. <<>> \in Seq(Sockets) /\ Distinct(<<>>)
    BY DEF Distinct
  <2>2. request \in Tasks /\ \A t \in Tasks : cast[t] = NoBroadcast
    BY DEF LiveInit, Tasks
  <2>3. LiveTyped
    BY <2>1, <2>2, IdleIsQuiet, LiveAssumption DEF LiveTyped, LiveInit
  <2> QED
    BY <2>2, <2>3, ControlIsNotLive DEF SwitchInv, LiveInit
<1>2. SwitchInv(request) /\ [LiveNext]_liveVars => SwitchInv(request)'
  BY SwitchStep
<1>3. SwitchInv(request) => ClientsKnowTheSwitch
  BY IdleIsQuiet DEF SwitchInv, WillKnow, LiveTyped, ClientsKnowTheSwitch
<1> QED
  BY <1>1, <1>2, <1>3, PTL DEF LiveSpec
-----------------------------------------------------------------------------
(* SourcePanel, for any alerts, sources, windows and signals.  Every       *)
(* signal takes a panel that fits what was raised to one that does, and no *)
(* live entry shrinks; so does a poll, which is a sequence of signals.     *)

Entry == [first : 0 .. now, last : 0 .. now, active : BOOLEAN, count : Nat]
Panels == [sources : [Sources -> Entry], counted : [Sources -> SUBSET Alerts]]
RaisedBy(s) == {a \in Alerts : SrcOf[a] = s} \cap Raised

\* An entry of the panel that counts no more than it may.
EntryFits(entry, alerts, s) ==
    /\ entry.first <= entry.last
    /\ entry.first = 0 => entry = Absent
    /\ alerts \subseteq RaisedBy(s)
    /\ entry.count <= Cardinality(alerts)

Fits(panel) ==
    /\ panel \in Panels
    /\ \A s \in Sources : EntryFits(panel.sources[s], panel.counted[s], s)

\* A live entry stays live, and its window and its count only grow.
EntryGrown(old, new) ==
    old.active => /\ new.active
                  /\ new.first <= old.first /\ new.last >= old.last
                  /\ new.count >= old.count

Grown(old, new) == \A s \in Sources : EntryGrown(old.sources[s], new.sources[s])

\* What a signal may be: of a source, at a time gone by, of an alert raised for it.
IsSignal(signal) ==
    /\ signal.src \in Sources /\ signal.at \in 1 .. now
    /\ signal.alert \in RaisedBy(signal.src) \cup {NoAlert}

\* An entry after a signal, and what is counted for its source then.
Additional(alerts, a) == IF a # NoAlert /\ a \notin alerts THEN 1 ELSE 0

EntryAfter(cur, alerts, ts, a) ==
    IF cur.first = 0 THEN Opened(ts, a)
    ELSE Updated(cur, ts, Additional(alerts, a))

CountedAfter(alerts, a) == alerts \cup ({a} \ {NoAlert})

LEMMA EntryBumped ==
    ASSUME now \in Nat, NEW s \in Sources, NEW ts \in 1 .. now,
           NEW a \in RaisedBy(s) \cup {NoAlert},
           NEW cur \in Entry, NEW alerts \in SUBSET Alerts, EntryFits(cur, alerts, s)
    PROVE  /\ EntryAfter(cur, alerts, ts, a) \in Entry
           /\ EntryFits(EntryAfter(cur, alerts, ts, a), CountedAfter(alerts, a), s)
           /\ EntryGrown(cur, EntryAfter(cur, alerts, ts, a))
<1> DEFINE more == Additional(alerts, a)
           next == EntryAfter(cur, alerts, ts, a)
           seen == CountedAfter(alerts, a)
<1> USE DEF Additional, EntryAfter, CountedAfter
<1>1. /\ cur.first \in 0 .. now /\ cur.last \in 0 .. now /\ cur.active \in BOOLEAN
      /\ cur.count \in Nat /\ cur.first <= cur.last
      /\ alerts \subseteq RaisedBy(s) /\ cur.count <= Cardinality(alerts)
      /\ cur.first = 0 => ~cur.active /\ cur.count = 0
  BY DEF Entry, EntryFits, Absent
<1>2. seen \subseteq RaisedBy(s) /\ NoAlert \notin Alerts /\ RaisedBy(s) \subseteq Alerts
  BY <1>1, PanelAssumption DEF RaisedBy
<1>3. IsFiniteSet(alerts) /\ IsFiniteSet(seen)
  <2>1. IsFiniteSet(Alerts) /\ alerts \subseteq Alerts /\ seen \subseteq Alerts
    BY <1>2, PanelAssumption
  <2> HIDE DEF seen
  <2> QED
    BY <2>1, FS_Subset
<1>4. /\ Cardinality(alerts) \in Nat /\ Cardinality(seen) \in Nat
      /\ Cardinality(seen) >= Cardinality(alerts) + more
      /\ a # NoAlert => Cardinality(seen) >= 1
  <2>1. Cardinality(alerts) \in Nat /\ Cardinality(seen) \in Nat
    BY <1>3, FS_CardinalityType
  <2>2. CASE a = NoAlert
    <3>1. seen = alerts
      BY <2>2
    <3> HIDE DEF seen
    <3> QED
      BY <2>1, <2>2, <3>1
  <2>3. CASE a # NoAlert
    <3>1. seen = alerts \cup {a}
      BY <2>3
    <3>2. Cardinality(seen) = IF a \in alerts THEN Cardinality(alerts)
                              ELSE Cardinality(alerts) + 1
      <4> HIDE DEF seen
      <4> QED
        BY <1>3, <3>1, FS_AddElement
    <3>3. Cardinality(seen) # 0
      <4> HIDE DEF seen
      <4> QED
        BY <1>3, <3>1, FS_EmptySet
    <3> HIDE DEF seen
    <3> QED
      BY <2>1, <2>3, <3>2, <3>3
  <2> QED
    BY <2>2, <2>3
<1>5. more \in {0, 1} /\ (more = 1 => a # NoAlert)
  OBVIOUS
<1> HIDE DEF seen, more
<1>6. /\ next = [first |-> next.first, last |-> next.last,
                 active |-> next.active, count |-> next.count]
      /\ next.first \in 1 .. now /\ next.last \in 1 .. now /\ next.first <= next.last
      /\ next.active = TRUE
      /\ next.count \in Nat /\ next.count <= Cardinality(seen)
      /\ cur.active => /\ next.first <= cur.first /\ next.last >= cur.last
                       /\ next.count >= cur.count
  <2>1. CASE cur.first = 0
    <3>1. next = [first |-> ts, last |-> ts, active |-> TRUE,
                  count |-> IF a = NoAlert THEN 0 ELSE 1]
      BY <2>1 DEF Opened
    <3> QED
      BY <1>1, <1>4, <2>1, <3>1
  <2>2. CASE cur.first # 0 /\ cur.active
    <3>1. next = [first |-> IF ts < cur.first THEN ts ELSE cur.first,
                  last |-> IF ts > cur.last THEN ts ELSE cur.last,
                  active |-> TRUE, count |-> cur.count + more]
      BY <2>2 DEF Updated, more
    <3> HIDE DEF next
    <3> QED
      BY <1>1, <1>4, <1>5, <2>2, <3>1
  <2>3. CASE cur.first # 0 /\ ~cur.active
    <3>1. next = [first |-> ts, last |-> ts, active |-> TRUE, count |-> more]
      BY <2>3 DEF Updated, more
    <3> HIDE DEF next
    <3> QED
      BY <1>1, <1>4, <1>5, <2>3, <3>1
  <2> QED
    BY <2>1, <2>2, <2>3
<1> HIDE DEF next
<1>7. next \in Entry
  <2>1. next.first \in 0 .. now /\ next.last \in 0 .. now
    BY <1>6
  <2>2. [first |-> next.first, last |-> next.last,
         active |-> next.active, count |-> next.count] \in Entry
    BY <1>6, <2>1 DEF Entry
  <2> QED
    BY <1>6, <2>2
<1>8. EntryFits(next, seen, s)
  BY <1>2, <1>6 DEF EntryFits
<1>9. EntryGrown(cur, next)
  BY <1>6 DEF EntryGrown
<1> QED
  BY <1>7, <1>8, <1>9 DEF seen, next

\* One signal: the panel.
LEMMA PanelBumped ==
    ASSUME now \in Nat,
           NEW old, NEW panel, Fits(panel), Grown(old, panel), old \in Panels,
           NEW signal, IsSignal(signal),
           NEW new, new = Bump(panel, signal.src, signal.at, signal.alert)
    PROVE  Fits(new) /\ Grown(old, new)
<1> DEFINE s == signal.src
           ts == signal.at
           a == signal.alert
           cur == panel.sources[s]
           alerts == panel.counted[s]
           next == EntryAfter(cur, alerts, ts, a)
           seen == CountedAfter(alerts, a)
<1>1. /\ s \in Sources /\ ts \in 1 .. now /\ a \in RaisedBy(s) \cup {NoAlert}
      /\ panel.sources \in [Sources -> Entry] /\ panel.counted \in [Sources -> SUBSET Alerts]
      /\ panel = [sources |-> panel.sources, counted |-> panel.counted]
  BY DEF IsSignal, Fits, Panels
<1>2. cur \in Entry /\ alerts \in SUBSET Alerts /\ EntryFits(cur, alerts, s)
  BY <1>1 DEF Fits
<1>3. \/ new = panel
      \/ new = [sources |-> [panel.sources EXCEPT ![s] = next],
                counted |-> [panel.counted EXCEPT ![s] = seen]]
  BY <1>1 DEF Bump, IsNewAlert, MoreAlerts, Count,
              Never, EntryAfter, CountedAfter, Additional
<1>4. next \in Entry /\ EntryFits(next, seen, s) /\ EntryGrown(cur, next)
  <2> HIDE DEF s, ts, a, cur, alerts
  <2> QED
    BY <1>1, <1>2, EntryBumped
<1>5. seen \in SUBSET Alerts
  BY <1>1, <1>2 DEF RaisedBy, CountedAfter
<1> HIDE DEF next, seen
<1>6. CASE new = panel
  BY <1>6
<1>7. CASE new = [sources |-> [panel.sources EXCEPT ![s] = next],
                  counted |-> [panel.counted EXCEPT ![s] = seen]]
  <2>1. /\ new.sources = [panel.sources EXCEPT ![s] = next]
        /\ new.counted = [panel.counted EXCEPT ![s] = seen]
        /\ new = [sources |-> new.sources, counted |-> new.counted]
    BY <1>7
  <2> HIDE DEF s, cur, alerts
  <2>2. /\ new.sources \in [Sources -> Entry]
        /\ new.counted \in [Sources -> SUBSET Alerts]
        /\ new.sources[s] = next /\ new.counted[s] = seen
        /\ \A u \in Sources \ {s} : /\ new.sources[u] = panel.sources[u]
                                    /\ new.counted[u] = panel.counted[u]
    BY <1>1, <1>4, <1>5, <2>1
  <2>3. new \in Panels
    BY <2>1, <2>2 DEF Panels
  <2>4. \A u \in Sources : EntryFits(new.sources[u], new.counted[u], u)
    BY <1>4, <2>2 DEF Fits
  <2>5. EntryGrown(old.sources[s], next)
    <3>1. EntryGrown(old.sources[s], cur) /\ EntryGrown(cur, next)
      BY <1>1, <1>4 DEF Grown, cur
    <3>2. /\ old.sources[s].first \in Int /\ old.sources[s].last \in Int
          /\ old.sources[s].count \in Int /\ old.sources[s].active \in BOOLEAN
          /\ cur.first \in Int /\ cur.last \in Int /\ cur.count \in Int
          /\ cur.active \in BOOLEAN
          /\ next.first \in Int /\ next.last \in Int /\ next.count \in Int
      BY <1>1, <1>2, <1>4 DEF Panels, Entry
    <3> QED
      BY <3>1, <3>2 DEF EntryGrown
  <2>6. Grown(old, new)
    BY <2>2, <2>5 DEF Grown
  <2> QED
    BY <2>3, <2>4, <2>6 DEF Fits
<1> QED
  BY <1>3, <1>6, <1>7
\* A sequence of signals, one after the other.
LEMMA PanelBumpedOn ==
    ASSUME now \in Nat,
           NEW old \in Panels, NEW panel, Fits(panel), Grown(old, panel),
           NEW n \in Nat, NEW signals, DOMAIN signals = 1 .. n, Len(signals) = n,
           \A i \in 1 .. n : IsSignal(signals[i])
    PROVE  Fits(Bumped(panel, signals)) /\ Grown(old, Bumped(panel, signals))
<1> DEFINE Good == {p \in Panels : Fits(p) /\ Grown(old, p)}
           Told(p, i) == Bump(p, signals[i].src, signals[i].at, signals[i].alert)
           step == [i \in 1 .. n |-> [p \in Good |-> Told(p, i)]]
           IsAfter(after) == after = [i \in 0 .. n |->
                       IF i = 0 THEN panel ELSE Told(after[i - 1], i)]
           after == CHOOSE f : IsAfter(f)
<1>1. \A p \in Good, i \in 1 .. n : Told(p, i) \in Good
  <2> SUFFICES ASSUME NEW p \in Good, NEW i \in 1 .. n PROVE Told(p, i) \in Good
    OBVIOUS
  <2>1. Fits(p) /\ Grown(old, p) /\ IsSignal(signals[i])
    OBVIOUS
  <2>2. Fits(Told(p, i)) /\ Grown(old, Told(p, i))
    BY <2>1, PanelBumped
  <2> HIDE DEF Told
  <2> QED
    BY <2>2 DEF Fits
<1>2. panel \in Good
  BY DEF Fits
<1> HIDE DEF Good, Told
<1>3. PICK run \in [0 .. n -> Good] :
        run[0] = panel /\ \A i \in 1 .. n : run[i] = step[i][run[i - 1]]
  <2>1. step \in [1 .. n -> [Good -> Good]]
    BY <1>1
  <2> HIDE DEF step
  <2>2. n \in Nat /\ panel \in Good
    BY <1>2
  <2> QED
    BY ONLY <2>1, <2>2, Iteration
<1>4. IsAfter(run)
  <2>1. ASSUME NEW i \in 1 .. n PROVE run[i] = Told(run[i - 1], i)
    <3>1. i - 1 \in 0 .. n
      OBVIOUS
    <3> QED
      BY <1>3, <3>1
  <2> HIDE DEF step
  <2>2. \A i \in 0 .. n : run[i] = IF i = 0 THEN panel ELSE Told(run[i - 1], i)
    BY <1>3, <2>1
  <2>3. run = [i \in 0 .. n |-> run[i]]
    OBVIOUS
  <2> QED
    BY <2>2, <2>3
<1>5. IsAfter(after)
  <2> HIDE DEF IsAfter
  <2> QED
    BY <1>4
<1>6. after[0] = panel /\ \A i \in 1 .. n : after[i] = Told(after[i - 1], i)
  <2> HIDE DEF after
  <2>1. \A i \in 0 .. n : after[i] = IF i = 0 THEN panel ELSE Told(after[i - 1], i)
    BY <1>5
  <2> HIDE DEF IsAfter
  <2> QED
    BY <2>1
<1> HIDE DEF after, IsAfter
<1> DEFINE T == {i \in 0 .. n : after[i] \in Good}
<1>7. 0 \in T
  BY <1>2, <1>6
<1>8. \A i \in 1 .. n : i - 1 \in T => i \in T
  BY <1>1, <1>6
<1>9. after[n] \in Good
  <2> HIDE DEF T
  <2>1. \A i \in 0 .. n : i \in T
    BY <1>7, <1>8, UpTo
  <2>2. n \in T
    BY <2>1
  <2> QED
    BY <2>2 DEF T
<1>10. Bumped(panel, signals) = after[n]
  BY DEF Bumped, after, IsAfter, Told
<1> QED
  BY <1>9, <1>10 DEF Good
\* SourcePanel's type invariant, and that every entry fits what was raised.
PanelInv ==
    /\ now \in 1 .. MaxTime
    /\ detected \in [Alerts -> SUBSET (1 .. now)]
    /\ Fits(Panel)
    /\ over \in [Sources -> 0 .. now]

\* The lists that polls apply hold raised alerts with the times they had.
LEMMA ListsTyped ==
    ASSUME PanelInv, NEW list \in Lists
    PROVE  /\ DOMAIN list \subseteq Raised
           /\ \A a \in DOMAIN list : list[a] \in 1 .. now
<1>1. now \in Nat
  BY PanelAssumption DEF PanelInv
<1>2. CASE Late
  <2>1. PICK S \in SUBSET Raised : list \in [S -> 1 .. now]
    BY <1>2 DEF Lists
  <2> QED
    BY <2>1
<1>3. CASE ~Late
  <2>1. list = [a \in Raised |-> Max(detected[a])]
    BY <1>3 DEF Lists, Latest
  <2>2. ASSUME NEW a \in Raised PROVE Max(detected[a]) \in 1 .. now
    <3>1. detected[a] \in SUBSET (1 .. now) /\ detected[a] # {}
      BY DEF PanelInv, Raised
    <3>2. \E greatest \in detected[a] : \A i \in detected[a] : greatest >= i
      <4>1. detected[a] \in SUBSET (0 .. now)
        BY <1>1, <3>1
      <4> QED
        BY ONLY <1>1, <3>1, <4>1, GreatestExists
    <3>3. Max(detected[a]) \in detected[a]
      BY <3>2 DEF Max
    <3> QED
      BY <3>1, <3>3
  <2> QED
    BY <2>1, <2>2
<1> QED
  BY <1>2, <1>3

\* What a function on 1 .. n makes of an order is a sequence of that length.
LEMMA OrderedLen ==
    ASSUME NEW n \in Nat, NEW seq, DOMAIN seq = 1 .. n, seq = [i \in 1 .. n |-> seq[i]]
    PROVE  Len(seq) = n
  OBVIOUS

\* A poll takes the panel to one that fits, and no live entry shrinks.
LEMMA PolledFits ==
    ASSUME PanelInv,
           NEW list \in Lists, NEW flows \in Flows,
           NEW alerts \in FreshestFirst(list),
           NEW talkers \in Orders(DOMAIN flows),
           NEW panel, panel = FromAlertsAndFlows(list, alerts, flows, talkers)
    PROVE  Fits(panel) /\ Grown(Panel, panel)
<1> DEFINE AlertSignals(order) == [i \in DOMAIN order |-> AlertSignal(list, order[i])]
           FlowSignals(order) == [i \in DOMAIN order |-> FlowSignal(flows, order[i])]
<1>1. panel = Bumped(Bumped(Panel, AlertSignals(alerts)),
                            FlowSignals(talkers))
  BY DEF FromAlertsAndFlows
<1>2. now \in Nat /\ now >= 1
  BY PanelAssumption DEF PanelInv
<1>3. /\ DOMAIN list \subseteq Raised /\ DOMAIN list \subseteq Alerts
      /\ \A a \in DOMAIN list : list[a] \in 1 .. now
  BY ListsTyped DEF Raised
<1>4. /\ DOMAIN flows \subseteq Sources
      /\ \A s \in DOMAIN flows : flows[s] \in 1 .. now
  <2>1. PICK S \in SUBSET Sources : flows \in [S -> FlowTimes]
    BY DEF Flows
  <2>2. FlowTimes \subseteq 1 .. now
    BY <1>2 DEF FlowTimes
  <2> QED
    BY <2>1, <2>2
<1>5. /\ alerts \in [1 .. Cardinality(DOMAIN list) -> DOMAIN list]
      /\ talkers \in [1 .. Cardinality(DOMAIN flows) -> DOMAIN flows]
  BY DEF FreshestFirst, Orders
<1>6. Cardinality(DOMAIN list) \in Nat /\ Cardinality(DOMAIN flows) \in Nat
  <2>1. IsFiniteSet(Alerts) /\ IsFiniteSet(Sources)
    BY PanelAssumption
  <2>2. IsFiniteSet(DOMAIN list) /\ IsFiniteSet(DOMAIN flows)
    BY <1>3, <1>4, <2>1, FS_Subset
  <2> QED
    BY <2>2, FS_CardinalityType
<1>7. \A i \in 1 .. Cardinality(DOMAIN list) : IsSignal(AlertSignals(alerts)[i])
  BY <1>3, <1>5, PanelAssumption DEF IsSignal, RaisedBy, AlertSignal
<1>8. \A i \in 1 .. Cardinality(DOMAIN flows) : IsSignal(FlowSignals(talkers)[i])
  BY <1>4, <1>5 DEF IsSignal, FlowSignal
<1>9. /\ DOMAIN AlertSignals(alerts) = 1 .. Cardinality(DOMAIN list)
      /\ DOMAIN FlowSignals(talkers) = 1 .. Cardinality(DOMAIN flows)
  BY <1>5
<1>10. /\ Len(AlertSignals(alerts)) = Cardinality(DOMAIN list)
       /\ Len(FlowSignals(talkers)) = Cardinality(DOMAIN flows)
  BY <1>5, <1>6, <1>9, OrderedLen
<1> HIDE DEF AlertSignals, FlowSignals
<1>11. Panel \in Panels /\ Fits(Panel) /\ Grown(Panel, Panel)
  <2>1. Fits(Panel) /\ Panel \in Panels
    BY DEF PanelInv, Fits
  <2> QED
    BY <1>2, <2>1 DEF Grown, EntryGrown, Panels, Entry
<1> DEFINE middle == Bumped(Panel, AlertSignals(alerts))
<1>12. Fits(middle) /\ Grown(Panel, middle)
  BY <1>2, <1>6, <1>7, <1>9, <1>10, <1>11, PanelBumpedOn
<1> HIDE DEF middle
<1>13. Fits(Bumped(middle, FlowSignals(talkers)))
       /\ Grown(Panel, Bumped(middle, FlowSignals(talkers)))
  BY <1>2, <1>6, <1>8, <1>9, <1>10, <1>11, <1>12, PanelBumpedOn
<1> QED
  BY <1>1, <1>13 DEF middle

\* What fits goes on to fit as time passes and alerts are raised.
LEMMA FitsLasts ==
    ASSUME now \in Nat, now' \in Nat, now' >= now, Raised \subseteq Raised',
           NEW panel, Fits(panel)
    PROVE  Fits(panel)'
<1>1. Entry \subseteq Entry'
  BY DEF Entry
<1>2. panel \in Panels'
  BY <1>1 DEF Fits, Panels
<1>3. \A s : RaisedBy(s) \subseteq RaisedBy(s)'
  BY DEF RaisedBy
<1>4. \A s \in Sources : EntryFits(panel.sources[s], panel.counted[s], s)'
  BY <1>3 DEF Fits, EntryFits, Absent, Never
<1> QED
  BY <1>2, <1>4 DEF Fits
\* What a step may do to a live entry: LiveWindowGrows, as a step.
WindowsKept ==
    \A s \in Sources : sources[s].active /\ sources'[s].active =>
        /\ sources'[s].first <= sources[s].first
        /\ sources'[s].last >= sources[s].last
        /\ sources'[s].count >= sources[s].count

\* A panel that is shown is the panel.
LEMMA Shown ==
    ASSUME NEW panel \in Panels, Show(panel)
    PROVE  Panel' = panel
  BY DEF Show, Panel, Panels

\* A step that leaves the panel alone.
LEMMA PanelLeft ==
    ASSUME PanelInv, UNCHANGED sources
    PROVE  WindowsKept
<1>1. \A s \in Sources : /\ sources[s].first \in Int /\ sources[s].last \in Int
                         /\ sources[s].count \in Int
  BY DEF PanelInv, Fits, Panels, Entry, Panel
<1> QED
  BY <1>1 DEF WindowsKept

\* A signal, or a poll full of them: what is shown fits and no live entry shrinks.
LEMMA PanelShown ==
    ASSUME PanelInv, NEW panel, Fits(panel), Grown(Panel, panel),
           Show(panel), UNCHANGED <<now, detected, over>>
    PROVE  PanelInv' /\ WindowsKept
<1>1. Panel' = panel
  BY Shown DEF Fits
<1>2. Fits(panel)'
  BY DEF Fits, Panels, Entry, EntryFits, RaisedBy, Raised
<1>3. Fits(Panel)'
  BY <1>1, <1>2 DEF Fits, Panels, Entry, EntryFits, RaisedBy, Raised
<1>4. PanelInv'
  BY <1>3 DEF PanelInv
<1>5. WindowsKept
  BY DEF Grown, EntryGrown, WindowsKept, Panel, Show
<1> QED
  BY <1>4, <1>5

\* The ticker: an ended entry is no longer live, the others stay as they are.
LEMMA PanelTicked ==
    ASSUME PanelInv, Tick
    PROVE  PanelInv' /\ WindowsKept
<1>1. /\ now \in Nat /\ now \in 1 .. MaxTime /\ now' = now
      /\ UNCHANGED <<detected, counted>>
      /\ sources \in [Sources -> Entry] /\ counted \in [Sources -> SUBSET Alerts]
      /\ over \in [Sources -> 0 .. now]
      /\ \A s \in Sources : EntryFits(sources[s], counted[s], s)
  BY PanelAssumption DEF PanelInv, Fits, Panels, Panel, Tick
<1>2. sources' = [s \in Sources |->
                   IF Pruned(s) THEN Absent
                   ELSE IF Ended(s) THEN [sources[s] EXCEPT !.active = FALSE]
                   ELSE sources[s]]
  BY DEF Tick
<1>3. ASSUME NEW s \in Sources
      PROVE  /\ sources'[s] \in Entry /\ EntryFits(sources'[s], counted[s], s)
             /\ sources'[s].active => sources'[s] = sources[s]
  <2>1. CASE Pruned(s)
    <3>1. sources'[s] = [first |-> 0, last |-> 0, active |-> FALSE, count |-> 0]
      BY <1>2, <2>1 DEF Absent, Never
    <3>2. Cardinality(counted[s]) \in Nat
      BY <1>1, FS_Subset, FS_CardinalityType, PanelAssumption
    <3> QED
      BY <1>1, <3>1, <3>2 DEF Entry, EntryFits, Absent, Never
  <2>2. CASE ~Pruned(s) /\ Ended(s)
    <3>1. sources'[s] = [sources[s] EXCEPT !.active = FALSE]
      BY <1>2, <2>2
    <3>2. sources[s] \in Entry /\ EntryFits(sources[s], counted[s], s) /\ sources[s].first # 0
      BY <1>1, <2>2 DEF Ended, Present, Never
    <3> QED
      BY <3>1, <3>2 DEF Entry, EntryFits
  <2>3. CASE ~Pruned(s) /\ ~Ended(s)
    BY <1>1, <1>2, <2>3
  <2> QED
    BY <2>1, <2>2, <2>3
<1>4. over' \in [Sources -> 0 .. now]
  <2>1. \A s \in Sources : sources[s].last \in 0 .. now
    BY <1>1 DEF Entry
  <2> QED
    BY <1>1, <2>1 DEF Tick, Never
<1>5. sources' \in [Sources -> Entry]
  BY <1>2, <1>3
<1>6. Fits(Panel)'
  <2>1. Panel' = [sources |-> sources', counted |-> counted]
    BY <1>1 DEF Panel
  <2>2. Entry' = Entry /\ \A s : RaisedBy(s)' = RaisedBy(s)
    BY <1>1 DEF Entry, RaisedBy, Raised
  <2>3. Panel' \in Panels'
    BY <1>1, <1>5, <2>1, <2>2 DEF Panels
  <2>4. \A s \in Sources : EntryFits(sources[s], counted[s], s)'
    BY <1>1, <1>3, <2>2 DEF EntryFits, Absent, Never
  <2> QED
    BY <2>3, <2>4 DEF Fits, Panel
<1>7. PanelInv'
  BY <1>1, <1>4, <1>6 DEF PanelInv
<1>8. WindowsKept
  <2>1. \A s \in Sources : /\ sources[s].first \in Int /\ sources[s].last \in Int
                           /\ sources[s].count \in Int
    BY <1>1 DEF Entry
  <2> QED
    BY <1>3, <2>1 DEF WindowsKept
<1> QED
  BY <1>7, <1>8

\* Every step of the panel keeps its entries fit and its live windows.
LEMMA PanelStep ==
    ASSUME PanelInv, [PanelNext]_panelVars
    PROVE  PanelInv' /\ WindowsKept
<1>0. /\ now \in Nat /\ now >= 1 /\ MaxTime \in Nat
      /\ Fits(Panel) /\ Panel \in Panels
  BY PanelAssumption DEF PanelInv, Fits
<1>1. CASE Elapse
  <2>1. /\ now' = now + 1 /\ now < MaxTime
        /\ UNCHANGED <<detected, sources, counted, over>>
    BY <1>1 DEF Elapse
  <2>2. Raised \subseteq Raised' /\ Panel' = Panel
    BY <2>1 DEF Raised, Panel
  <2>3. Fits(Panel)'
    <3>1. \A p : Fits(p) => Fits(p)'
      BY <1>0, <2>1, <2>2, FitsLasts
    <3> QED
      BY <1>0, <2>1, <2>2, <3>1
         DEF Fits, Panels, Entry, EntryFits, RaisedBy, Raised, Panel
  <2>4. now' \in 1 .. MaxTime
    BY <1>0, <2>1
  <2>5. detected' \in [Alerts -> SUBSET (1 .. now')] /\ over' \in [Sources -> 0 .. now']
    <3>1. 1 .. now \subseteq 1 .. now' /\ 0 .. now \subseteq 0 .. now'
      BY <1>0, <2>1
    <3> QED
      BY <2>1, <3>1 DEF PanelInv
  <2> QED
    BY <2>1, <2>3, <2>4, <2>5, PanelLeft DEF PanelInv
<1>2. ASSUME NEW a \in Alerts, RaiseAlert(a) PROVE PanelInv' /\ WindowsKept
  <2>1. /\ detected' = [detected EXCEPT ![a] = @ \cup {now}]
        /\ UNCHANGED <<now, sources, counted, over>>
    BY <1>2 DEF RaiseAlert
  <2>2. Raised \subseteq Raised' /\ Panel' = Panel
    BY <2>1 DEF PanelInv, Raised, Panel
  <2>3. Fits(Panel)'
    BY <1>0, <2>1, <2>2
       DEF Fits, Panels, Entry, EntryFits, RaisedBy, Panel
  <2>4. detected' \in [Alerts -> SUBSET (1 .. now)]
    BY <1>0, <2>1 DEF PanelInv
  <2> QED
    BY <2>1, <2>3, <2>4, PanelLeft DEF PanelInv
<1>3. ASSUME NEW a \in Alerts, PushAlert(a) PROVE PanelInv' /\ WindowsKept
  <2>1. PICK at \in PushTimes(a) : Show(Bump(Panel, SrcOf[a], at, a))
    BY <1>3 DEF PushAlert
  <2> DEFINE signal == [src |-> SrcOf[a], at |-> at, alert |-> a]
             new == Bump(Panel, signal.src, signal.at, signal.alert)
  <2>2. at \in detected[a] /\ detected[a] \subseteq 1 .. now
    BY DEF PushTimes, PanelInv
  <2>3. IsSignal(signal)
    BY <2>2, PanelAssumption DEF IsSignal, RaisedBy, Raised
  <2>4. Grown(Panel, Panel)
    BY <1>0 DEF Grown, EntryGrown, Panels, Entry
  <2>5. Fits(new) /\ Grown(Panel, new)
    <3> HIDE DEF signal
    <3> QED
      BY <1>0, <2>3, <2>4, PanelBumped
  <2>6. Show(new)
    BY <2>1
  <2>7. UNCHANGED <<now, detected, over>>
    BY <1>3 DEF PushAlert
  <2> HIDE DEF new
  <2> QED
    BY <2>5, <2>6, <2>7, PanelShown
<1>4. CASE Poll
  <2>1. PICK list \in Lists, flows \in Flows :
          \E alerts \in FreshestFirst(list),
             talkers \in Orders(DOMAIN flows) :
               Show(FromAlertsAndFlows(list, alerts, flows, talkers))
    BY <1>4 DEF Poll
  <2>2. PICK alerts \in FreshestFirst(list), talkers \in Orders(DOMAIN flows) :
          Show(FromAlertsAndFlows(list, alerts, flows, talkers))
    BY <2>1
  <2> DEFINE new == FromAlertsAndFlows(list, alerts, flows, talkers)
  <2>3. Fits(new) /\ Grown(Panel, new)
    BY PolledFits
  <2>4. UNCHANGED <<now, detected, over>>
    BY <1>4 DEF Poll
  <2> QED
    BY <2>2, <2>3, <2>4, PanelShown
<1>5. CASE Tick
  BY <1>5, PanelTicked
<1>6. CASE UNCHANGED panelVars
  <2>1. UNCHANGED <<now, detected, sources, counted, over>>
    BY <1>6 DEF panelVars
  <2>2. Fits(Panel)'
    BY <1>0, <2>1
       DEF Fits, Panels, Entry, EntryFits, RaisedBy, Raised, Panel
  <2> QED
    BY <2>1, <2>2, PanelLeft DEF PanelInv
<1> QED
  BY <1>1, <1>2, <1>3, <1>4, <1>5, <1>6 DEF PanelNext

LEMMA PanelStarts == PanelInit => PanelInv
<1> SUFFICES ASSUME PanelInit PROVE PanelInv
  OBVIOUS
<1>1. /\ now = 1 /\ detected = [a \in Alerts |-> {}]
      /\ sources = [s \in Sources |-> [first |-> 0, last |-> 0, active |-> FALSE, count |-> 0]]
      /\ counted = [s \in Sources |-> {}] /\ over = [s \in Sources |-> 0]
      /\ MaxTime \in Nat \ {0}
  BY PanelAssumption DEF PanelInit, Absent, Never
<1>2. Cardinality({}) = 0
  BY FS_EmptySet
<1>3. Fits(Panel)
  BY <1>1, <1>2
     DEF Fits, Panels, Entry, EntryFits, RaisedBy, Panel, Absent, Never
<1> QED
  BY <1>1, <1>3 DEF PanelInv

\* The panel is well-typed: PanelTypeOK.
THEOREM PanelTyped == PanelSpec => []PanelTypeOK
<1>1. PanelInv => PanelTypeOK
  BY DEF PanelInv, Fits, Panels, Entry, EntryFits, Panel, PanelTypeOK,
         Times, Present, Absent, Never
<1>2. PanelInv /\ [PanelNext]_panelVars => PanelInv'
  BY PanelStep
<1> QED
  BY <1>1, <1>2, PanelStarts, PTL DEF PanelSpec

\* No pulse, revival, removal or repeated poll makes the panel count an alert
\* twice or one that was not raised: SourcePanel's AlertCountHonest.
THEOREM CountHonest == PanelSpec => []AlertCountHonest
<1>1. PanelInv => AlertCountHonest
  BY DEF PanelInv, Fits, EntryFits, RaisedBy, Panel, AlertCountHonest
<1>2. PanelInv /\ [PanelNext]_panelVars => PanelInv'
  BY PanelStep
<1> QED
  BY <1>1, <1>2, PanelStarts, PTL DEF PanelSpec

\* Whatever signals come, late or repeated, the window of a source that stays
\* live only grows: SourcePanel's LiveWindowGrows.
THEOREM LiveWindowsGrow == PanelSpec => LiveWindowGrows
<1>1. PanelInv /\ [PanelNext]_panelVars => PanelInv' /\ [WindowsKept]_panelVars
  BY PanelStep
<1> QED
  BY <1>1, PanelStarts, PTL DEF PanelSpec, LiveWindowGrows, WindowsKept
=============================================================================
