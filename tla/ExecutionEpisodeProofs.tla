------------------------ MODULE ExecutionEpisodeProofs ------------------------
(***************************************************************************)
(* Theorems about ExecutionEpisode, for every deadline, wall clock,        *)
(* extension, limit and number of attempts, specifications and crashes.    *)
(*                                                                         *)
(* OneActive and DeadlineInherited hold together: the deadline of a new    *)
(* episode is the least one of its specification, which is everybody's     *)
(* (FirstIsShared), and the wall clock the watchdog keeps is that of the   *)
(* latest episode, the only one that can be active.  The typing they need  *)
(* is small: nothing has to be known of the jobs, the threads or the task, *)
(* because no update touches an episode that is not active.                *)
(*                                                                         *)
(* EpisodeTypeOK needs them: only because the deadline of a fresh episode  *)
(* is inherited does it stay within that of a specification.               *)
(* ReadyMayStart needs both, and StartInv, which says whose process fills  *)
(* the episode that goes on.  SpendBounded needs them all, and LadderInv:  *)
(* the episodes of a specification climb one ladder between two that were  *)
(* completed, and an attempt completes at most one.                        *)
(***************************************************************************)
EXTENDS ExecutionEpisode, SequenceTheorems, FiniteSetTheorems, TLAPS

Row == [spec : 1..MaxSpec, status : {"active", "terminated", "completed", "circuit_open"},
        recovery : Nat, deadline : Nat, processes : Nat]

(* The rows are rows, and watch is a record with a wall clock.             *)
Shaped ==
  /\ spec \in 1..MaxSpec
  /\ episodes \in Seq(Row)
  /\ watch = [wall |-> watch.wall, idle |-> watch.idle, fault |-> watch.fault,
              same |-> watch.same]
  /\ watch.wall \in Nat

Shared == \A i, k \in DOMAIN episodes :
            episodes[i].spec = episodes[k].spec => episodes[i].deadline = episodes[k].deadline

WithinDeadline == episodes # <<>> => watch.wall <= Latest.deadline

EpisodeInv == Shaped /\ OneActive /\ Shared /\ WithinDeadline

-----------------------------------------------------------------------------
LEMMA FirstIsShared ==
  ASSUME Shaped, Shared, NEW i \in DOMAIN episodes
  PROVE  FirstDeadline(episodes[i].spec) = episodes[i].deadline
<1> DEFINE d == episodes[i].deadline
           S == {episodes[k].deadline : k \in EpisodesOf(episodes[i].spec)}
<1>1. d \in Nat
  <2>1. episodes[i] \in Row
    BY LenProperties, ElementOfSeq DEF Shaped
  <2> QED BY <2>1 DEF Row
<1>2. S = {d}
  <2>1. d \in S
    BY DEF EpisodesOf
  <2>2. ASSUME NEW x \in S PROVE x = d
    <3>1. PICK k \in EpisodesOf(episodes[i].spec) : x = episodes[k].deadline
      OBVIOUS
    <3> QED BY <3>1 DEF Shared, EpisodesOf
  <2> QED BY <2>1, <2>2
<1>3. Min({d}) = d
  BY <1>1 DEF Min
<1> QED BY <1>2, <1>3 DEF FirstDeadline

(* What a change of one row does to the sequence.                          *)
LEMMA OneRow ==
  ASSUME NEW S, NEW s \in Seq(S), NEW i, NEW row, i \in DOMAIN s => row \in S
  PROVE  LET t == [s EXCEPT ![i] = row]
         IN /\ t \in Seq(S) /\ Len(t) = Len(s) /\ DOMAIN t = DOMAIN s
            /\ \A k \in DOMAIN s : t[k] = IF k = i THEN row ELSE s[k]
<1> DEFINE t == [s EXCEPT ![i] = row]
<1>1. DOMAIN s = 1..Len(s)
  BY LenProperties
<1>2. CASE i \in DOMAIN s
  <2>1. t \in Seq(S) /\ Len(t) = Len(s)
    BY <1>1, <1>2, ExceptSeq
  <2> QED BY <2>1
<1>3. CASE i \notin DOMAIN s
  <2>1. t = s
    <3>1. s = [k \in DOMAIN s |-> s[k]]
      BY LenProperties
    <3> QED BY <1>3, <3>1
  <2> QED BY <1>3, <2>1
<1> QED BY <1>2, <1>3

LEMMA LatestIsRow ==
  ASSUME Shaped, episodes # <<>>
  PROVE  Len(episodes) \in DOMAIN episodes /\ Latest \in Row
BY DEF Shaped, Latest

(* The clamp of observe_episode and of prepare changes nothing: it is there *)
(* for the rows of older releases.                                         *)
LEMMA ClampIsIdle ==
  ASSUME EpisodeInv, episodes # <<>>
  PROVE  ClampedRow(Latest) = Latest /\ ClampedWatch(Latest) = watch
<1>1. Latest \in Row /\ FirstDeadline(Latest.spec) = Latest.deadline
  BY LatestIsRow, FirstIsShared DEF EpisodeInv, Latest
<1>2. Latest.deadline \in Nat /\ watch.wall \in Nat /\ watch.wall <= Latest.deadline
  BY <1>1 DEF EpisodeInv, Shaped, WithinDeadline, Row
<1>3. ClampedRow(Latest) = Latest
  <2>1. Least(Latest.deadline, Latest.deadline) = Latest.deadline
    BY DEF Least
  <2> QED BY <1>1, <2>1 DEF ClampedRow, Row
<1>4. ClampedWatch(Latest) = watch
  <2>1. Least(watch.wall, Latest.deadline) = watch.wall
    BY <1>2 DEF Least
  <2> QED BY <1>1, <2>1 DEF ClampedWatch, EpisodeInv, Shaped
<1> QED BY <1>3, <1>4

-----------------------------------------------------------------------------
(* A step that lets the rows keep what the invariant is about.             *)
LEMMA RowsKept ==
  ASSUME EpisodeInv, UNCHANGED spec,
         episodes' \in Seq(Row), Len(episodes') = Len(episodes),
         DOMAIN episodes' = DOMAIN episodes,
         \A i \in DOMAIN episodes :
           /\ episodes'[i].spec = episodes[i].spec
           /\ episodes'[i].deadline = episodes[i].deadline
           /\ episodes'[i].status = "active" => episodes[i].status = "active",
         watch' = [wall |-> watch'.wall, idle |-> watch'.idle, fault |-> watch'.fault,
                   same |-> watch'.same],
         watch'.wall \in Nat,
         episodes # <<>> => watch'.wall <= Latest.deadline
  PROVE  EpisodeInv'
<1>1. Shaped'
  BY DEF EpisodeInv, Shaped
<1>2. OneActive'
  BY DEF EpisodeInv, OneActive
<1>3. Shared'
  BY DEF EpisodeInv, Shared
<1>4. WithinDeadline'
  <2>1. SUFFICES ASSUME episodes' # <<>> PROVE watch'.wall <= Latest'.deadline
    BY DEF WithinDeadline
  <2>2. Len(episodes) # 0
    BY <2>1, EmptySeq
  <2>3. episodes # <<>>
    BY <2>2, EmptySeq
  <2> QED BY <2>3, LatestIsRow DEF Latest, EpisodeInv
<1> QED BY <1>1, <1>2, <1>3, <1>4 DEF EpisodeInv

(* What _episode_for_process inserts has the deadline of its specification. *)
LEMMA FreshIsShared ==
  ASSUME EpisodeInv
  PROVE  /\ FreshEpisode \in Row /\ FreshEpisode.spec = spec
         /\ \A i \in DOMAIN episodes :
              episodes[i].spec = spec => episodes[i].deadline = FreshEpisode.deadline
<1>1. NextRecovery \in Nat
  <2>1. CASE episodes # <<>>
    <3>1. Latest.recovery \in Nat
      BY <2>1, LatestIsRow DEF EpisodeInv, Row
    <3> QED BY <2>1, <3>1 DEF NextRecovery
  <2>2. CASE episodes = <<>>
    BY <2>2 DEF NextRecovery
  <2> QED BY <2>1, <2>2
<1>2. ASSUME NEW i \in DOMAIN episodes, episodes[i].spec = spec
      PROVE  FirstDeadline(spec) = episodes[i].deadline
  BY <1>2, FirstIsShared DEF EpisodeInv
<1>3. ASSUME EpisodesOf(spec) # {} PROVE FirstDeadline(spec) \in Nat
  <2>1. PICK i \in DOMAIN episodes : episodes[i].spec = spec
    BY <1>3 DEF EpisodesOf
  <2>2. episodes[i] \in Row
    BY LenProperties, ElementOfSeq DEF EpisodeInv, Shaped
  <2> QED BY <1>2, <2>1, <2>2 DEF Row
<1>4. FreshEpisode.deadline = IF EpisodesOf(spec) = {} THEN Deadline ELSE FirstDeadline(spec)
  BY DEF FreshEpisode
<1>5. FreshEpisode.deadline \in Nat
  BY <1>3, <1>4, EpisodeAssumption
<1>6. FreshEpisode \in Row /\ FreshEpisode.spec = spec
  BY <1>1, <1>4, <1>5 DEF FreshEpisode, Row, EpisodeInv, Shaped
<1>7. ASSUME NEW i \in DOMAIN episodes, episodes[i].spec = spec
      PROVE  episodes[i].deadline = FreshEpisode.deadline
  BY <1>2, <1>4, <1>7 DEF EpisodesOf
<1> QED BY <1>6, <1>7

LEMMA PrepareStep == EpisodeInv /\ Prepare => EpisodeInv'
<1> SUFFICES ASSUME EpisodeInv, Prepare PROVE EpisodeInv'
  OBVIOUS
<1> DEFINE n == Len(episodes)
<1>0. spec' = spec /\ spec \in 1..MaxSpec /\ episodes \in Seq(Row) /\ n \in Nat
      /\ DOMAIN episodes = 1..n
  BY LenProperties DEF Prepare, taskVars, EpisodeInv, Shaped
<1>1. CASE Continues
  <2> DEFINE e == [Latest EXCEPT !.processes = @ + 1]
  <2>1. episodes # <<>> /\ n \in DOMAIN episodes /\ Latest \in Row /\ Latest = episodes[n]
    BY <1>1, LatestIsRow DEF Continues, EpisodeInv, Latest
  <2>2. [episodes EXCEPT ![n] = Latest] = episodes
    <3>1. episodes = [k \in DOMAIN episodes |-> episodes[k]]
      BY <1>0, LenProperties
    <3> QED BY <2>1, <3>1
  <2>3. ClampedRow(episodes[n]) = Latest /\ ClampedWatch(Latest) = watch
    BY <2>1, ClampIsIdle
  <2>4. episodes' = [episodes EXCEPT ![n] = e] /\ watch' = watch
    <3>1. [episodes EXCEPT ![n] = ClampedRow(@)] = episodes
      BY <2>2, <2>3
    <3>2. episodes' = [episodes EXCEPT ![n].processes = @ + 1] /\ watch' = watch
      BY <1>1, <2>3, <3>1 DEF Prepare
    <3> QED BY <2>1, <3>2
  <2>5. e \in Row /\ e.spec = Latest.spec /\ e.status = Latest.status
        /\ e.deadline = Latest.deadline
    BY <2>1 DEF Row
  <2> HIDE DEF e
  <2>6. /\ episodes' \in Seq(Row) /\ Len(episodes') = n /\ DOMAIN episodes' = DOMAIN episodes
        /\ \A k \in DOMAIN episodes : episodes'[k] = IF k = n THEN e ELSE episodes[k]
    BY <1>0, <2>4, <2>5, OneRow
  <2>7. watch.wall <= Latest.deadline /\ watch.wall \in Nat
    BY <2>1 DEF EpisodeInv, WithinDeadline, Shaped
  <2>8. watch = [wall |-> watch.wall, idle |-> watch.idle, fault |-> watch.fault,
                 same |-> watch.same]
    BY DEF EpisodeInv, Shaped
  <2> QED BY <1>0, <2>1, <2>4, <2>5, <2>6, <2>7, <2>8, RowsKept
<1>2. CASE ~Continues
  <2> DEFINE f == FreshEpisode
             g == [f EXCEPT !.processes = @ + 1]
             s == Append(episodes, f)
  <2>1. f \in Row /\ f.spec = spec
        /\ \A i \in DOMAIN episodes : episodes[i].spec = spec => episodes[i].deadline = f.deadline
    BY FreshIsShared
  <2>2. s \in Seq(Row) /\ Len(s) = n + 1 /\ s[n + 1] = f /\ \A i \in 1..n : s[i] = episodes[i]
    BY <1>0, <2>1, AppendProperties
  <2>3. g \in Row /\ g.spec = f.spec /\ g.deadline = f.deadline
    BY <2>1 DEF Row
  <2>4. episodes' = [s EXCEPT ![n + 1].processes = @ + 1]
        /\ watch' = FreshWatch(f)
    BY <1>2, <2>2 DEF Prepare
  <2>5. episodes' = [s EXCEPT ![n + 1] = g]
    BY <2>2, <2>4
  <2> HIDE DEF f, g, s, n
  <2>6. /\ episodes' \in Seq(Row) /\ Len(episodes') = n + 1 /\ episodes'[n + 1] = g
        /\ \A i \in 1..n : episodes'[i] = episodes[i]
    <3>1. n + 1 \in 1..Len(s) /\ \A i \in 1..n : i \in 1..Len(s) /\ i # n + 1
      BY <1>0, <2>2
    <3> QED BY <2>2, <2>3, <2>5, <3>1, ExceptSeq
  <2>7. DOMAIN episodes' = 1..(n + 1)
    BY <2>6, LenProperties
  <2>8. \A i \in 1..n : episodes[i].status # "active"
    <3>1. CASE n = 0
      BY <3>1
    <3>2. CASE n # 0
      BY <1>0, <1>2, <3>2, EmptySeq DEF Continues, Latest, EpisodeInv, OneActive
    <3> QED BY <3>1, <3>2
  <2>9. OneActive'
    BY <1>0, <2>6, <2>7, <2>8 DEF OneActive
  <2>10. Shared'
    BY <1>0, <2>1, <2>3, <2>6, <2>7 DEF Shared, EpisodeInv
  <2>11. watch'.wall <= f.deadline /\ watch'.wall \in Nat
    BY <2>1, <2>4, EpisodeAssumption DEF FreshWatch, Least, Row
  <2>12. WithinDeadline'
    BY <2>3, <2>6, <2>11 DEF WithinDeadline, Latest
  <2>13. Shaped'
    BY <1>0, <2>4, <2>6, <2>11 DEF Shaped, FreshWatch
  <2> QED BY <2>9, <2>10, <2>12, <2>13 DEF EpisodeInv
<1> QED BY <1>1, <1>2

LEMMA EndStep ==
  ASSUME EpisodeInv, NEW i, NEW how \in {"terminated", "completed", "circuit_open"},
         EndEpisode(i, how), UNCHANGED <<spec, watch>>
  PROVE  EpisodeInv'
<1> DEFINE e == [episodes[i] EXCEPT !.status = IF @ = "active" THEN how ELSE @]
<1>0. episodes \in Seq(Row) /\ DOMAIN episodes = 1..Len(episodes)
  BY LenProperties DEF EpisodeInv, Shaped
<1>1. episodes' = [episodes EXCEPT ![i] = e]
  BY DEF EndEpisode
<1>2. ASSUME i \in DOMAIN episodes
      PROVE  e \in Row /\ e.spec = episodes[i].spec /\ e.deadline = episodes[i].deadline
             /\ (e.status = "active" => episodes[i].status = "active")
  <2>1. episodes[i] \in Row
    BY <1>0, <1>2, ElementOfSeq
  <2> QED BY <2>1 DEF Row
<1> HIDE DEF e
<1>3. /\ episodes' \in Seq(Row) /\ Len(episodes') = Len(episodes)
      /\ DOMAIN episodes' = DOMAIN episodes
      /\ \A k \in DOMAIN episodes : episodes'[k] = IF k = i THEN e ELSE episodes[k]
  BY <1>0, <1>1, <1>2, OneRow
<1>4. /\ watch.wall \in Nat
      /\ episodes # <<>> => watch.wall <= Latest.deadline
      /\ watch = [wall |-> watch.wall, idle |-> watch.idle, fault |-> watch.fault,
                  same |-> watch.same]
  BY DEF EpisodeInv, Shaped, WithinDeadline
<1> QED BY <1>2, <1>3, <1>4, RowsKept

(* The steps that leave the episodes alone.                                *)
LEMMA OtherStep ==
  ASSUME EpisodeInv, UNCHANGED <<episodes, watch>>, spec' \in 1..MaxSpec
  PROVE  EpisodeInv'
BY DEF EpisodeInv, Shaped, OneActive, Shared, WithinDeadline, Latest

(* What an observation sees and writes: no row changes, because no row is   *)
(* of an older release, and the watch is that of the latest episode.        *)
LEMMA ObserveSees ==
  ASSUME EpisodeInv, NEW i, NEW fault, NEW running, NEW progressed, NEW bounded,
         ObserveEpisode(i, fault, running, progressed, bounded)
  PROVE  /\ i \in DOMAIN episodes /\ episodes' = episodes
         /\ i # Len(episodes) => UNCHANGED watch
         /\ i = Len(episodes) =>
              /\ bounded = Bounded(Latest, watch.wall, fault, SameCount(fault, running))
              /\ watch' = IF Latest.status # "active" THEN watch
                          ELSE [wall  |-> IF progressed THEN ExtendedWall(Latest, watch.wall)
                                          ELSE watch.wall,
                                idle  |-> IF progressed THEN 0 ELSE watch.idle,
                                fault |-> IF fault = "none" /\ ~running THEN watch.fault
                                          ELSE fault,
                                same  |-> SameCount(fault, running)]
<1>0. i \in DOMAIN episodes /\ episodes' = [episodes EXCEPT ![i] = ClampedRow(episodes[i])]
  BY DEF ObserveEpisode
<1>1. episodes = [k \in DOMAIN episodes |-> episodes[k]]
  BY LenProperties DEF EpisodeInv, Shaped
<1>2. CASE i # Len(episodes)
  <2>1. episodes[i].status # "active"
    BY <1>0, <1>2 DEF EpisodeInv, OneActive
  <2>2. ClampedRow(episodes[i]) = episodes[i]
    BY <2>1 DEF ClampedRow
  <2>3. episodes' = episodes
    BY <1>0, <1>1, <2>2
  <2> QED BY <1>0, <1>2, <2>3 DEF ObserveEpisode
<1>3. CASE i = Len(episodes)
  <2>1. episodes # <<>> /\ Latest = episodes[i]
    BY <1>0, <1>3, EmptySeq DEF EpisodeInv, Shaped, Latest
  <2>2. ClampedRow(episodes[i]) = Latest /\ ClampedWatch(Latest) = watch
    BY <2>1, ClampIsIdle
  <2>3. episodes' = episodes
    BY <1>0, <1>1, <2>1, <2>2
  <2> QED BY <1>0, <1>3, <2>2, <2>3 DEF ObserveEpisode
<1> QED BY <1>2, <1>3

LEMMA ObserveStep ==
  ASSUME EpisodeInv, NEW i, NEW fault, NEW running, NEW progressed, NEW bounded,
         ObserveEpisode(i, fault, running, progressed, bounded), UNCHANGED spec
  PROVE  EpisodeInv'
<1>1. i \in DOMAIN episodes /\ episodes' = episodes
  BY ObserveSees
<1>2. CASE UNCHANGED watch
  BY <1>1, <1>2, OtherStep DEF EpisodeInv, Shaped
<1>3. CASE ~UNCHANGED watch
  <2>1. /\ watch' = [wall  |-> watch'.wall, idle |-> watch'.idle,
                     fault |-> watch'.fault, same |-> watch'.same]
        /\ watch'.wall \in {watch.wall, ExtendedWall(Latest, watch.wall)}
    BY <1>3, ObserveSees
  <2>2. episodes # <<>>
    BY <1>1, EmptySeq
  <2>3. watch.wall \in Nat /\ Latest.deadline \in Nat /\ watch.wall <= Latest.deadline
    BY <2>2, LatestIsRow DEF EpisodeInv, Shaped, WithinDeadline, Row
  <2>4. watch'.wall \in Nat /\ watch'.wall <= Latest.deadline
    BY <2>1, <2>3, EpisodeAssumption DEF ExtendedWall, Least
  <2>5. episodes \in Seq(Row)
    BY DEF EpisodeInv, Shaped
  <2> QED BY <1>1, <2>1, <2>4, <2>5, RowsKept
<1> QED BY <1>2, <1>3

LEMMA ElapseStep == EpisodeInv /\ Elapse => EpisodeInv'
<1> SUFFICES ASSUME EpisodeInv, Elapse PROVE EpisodeInv'
  OBVIOUS
<1> DEFINE n == Len(episodes)
           e(i) == [episodes[i] EXCEPT !.deadline = NotNegative(@ - 1)]
<1>0. /\ spec' = spec /\ episodes \in Seq(Row) /\ n \in Nat /\ DOMAIN episodes = 1..n
      /\ episodes' = [i \in 1..n |-> e(i)]
      /\ \A i \in 1..n : episodes[i] \in Row
  BY LenProperties, ElementOfSeq DEF Elapse, taskVars, EpisodeInv, Shaped
<1>1. ASSUME NEW i \in 1..n
      PROVE  /\ e(i) \in Row /\ e(i).spec = episodes[i].spec /\ e(i).status = episodes[i].status
             /\ e(i).deadline = NotNegative(episodes[i].deadline - 1)
  <2>1. episodes[i] \in Row
    BY <1>0, <1>1
  <2>2. NotNegative(episodes[i].deadline - 1) \in Nat
    BY <2>1 DEF Row, NotNegative
  <2> QED BY <2>1, <2>2 DEF Row
<1> HIDE DEF e
<1>2. episodes' \in Seq(Row) /\ Len(episodes') = n /\ DOMAIN episodes' = 1..n
      /\ \A i \in 1..n : episodes'[i] = e(i)
  <2>1. episodes' \in [1..n -> Row]
    BY <1>0, <1>1
  <2>2. episodes' \in Seq(Row)
    BY <1>0, <2>1
  <2>3. Len(episodes') = n
    BY <1>0, <2>1, <2>2, LenProperties
  <2> QED BY <1>0, <2>1, <2>2, <2>3
<1>3. OneActive' /\ Shared'
  BY <1>0, <1>1, <1>2 DEF EpisodeInv, OneActive, Shared
<1>4. watch' = [wall |-> NotNegative(watch.wall - 1), idle |-> Least(watch.idle + 1, NoProgress),
                fault |-> watch.fault, same |-> watch.same]
  BY DEF Elapse, EpisodeInv, Shaped
<1>5. watch.wall \in Nat /\ watch'.wall = NotNegative(watch.wall - 1) /\ watch'.wall \in Nat
  BY <1>4 DEF EpisodeInv, Shaped, NotNegative
<1>6. WithinDeadline'
  <2>1. SUFFICES ASSUME episodes' # <<>> PROVE watch'.wall <= episodes'[n].deadline
    BY <1>2 DEF WithinDeadline, Latest
  <2>2. n # 0
    BY <1>2, <2>1, EmptySeq
  <2>3. n \in 1..n /\ episodes # <<>>
    BY <1>0, <2>2, EmptySeq
  <2>4. watch.wall <= episodes[n].deadline /\ episodes[n].deadline \in Nat
    BY <1>0, <2>3 DEF EpisodeInv, WithinDeadline, Latest, Row
  <2>5. episodes'[n].deadline = NotNegative(episodes[n].deadline - 1)
    BY <1>1, <1>2, <2>3
  <2> QED BY <1>5, <2>4, <2>5 DEF NotNegative
<1>7. Shaped'
  BY <1>0, <1>2, <1>4, <1>5 DEF EpisodeInv, Shaped
<1> QED BY <1>3, <1>6, <1>7 DEF EpisodeInv

LEMMA EpisodeStep == EpisodeInv /\ [Next]_vars => EpisodeInv'
<1> SUFFICES ASSUME EpisodeInv, [Next]_vars PROVE EpisodeInv'
  OBVIOUS
<1>0. spec \in 1..MaxSpec
  BY DEF EpisodeInv, Shaped
<1>1. CASE Prepare
  BY <1>1, PrepareStep
<1>2. CASE Claim \/ HardDeadline \/ Refused \/ Recover
  BY <1>0, <1>2, OtherStep DEF Claim, HardDeadline, Refused, Recover, taskVars
<1>3. CASE CancelReaches \/ CancelFails \/ Finalize \/ Finish
  BY <1>0, <1>3, OtherStep DEF CancelReaches, CancelFails, Finalize, Finish, taskVars
<1>4. CASE EvidenceRefused \/ ConfirmCancel \/ Consume \/ Crash
  BY <1>0, <1>4, OtherStep DEF EvidenceRefused, ConfirmCancel, Consume, Crash, taskVars
<1>5. CASE Operate
  <2>1. spec' \in 1..MaxSpec
    BY <1>0, <1>5, EpisodeAssumption
       DEF Operate, Cancel, ResumeSuspended, OperatorResume, ReplaceSpec
  <2> QED BY <1>5, <2>1, OtherStep
          DEF Operate, Cancel, ResumeSuspended, OperatorResume, ReplaceSpec
<1>6. CASE Terminate
  BY <1>6, EndStep DEF Terminate, taskVars
<1>7. CASE Complete
  BY <1>7, EndStep DEF Complete, taskVars
<1>8. CASE VerifyFails
  <2>1. PICK bounded \in BOOLEAN :
          ObserveEpisode(job[rc.job].episode, "transient_transport", FALSE, FALSE, bounded)
    BY <1>8 DEF VerifyFails
  <2> QED BY <1>8, <2>1, ObserveStep DEF VerifyFails, taskVars
<1>9. ASSUME NEW a \in Attempts, Observe(a) PROVE EpisodeInv'
  <2>1. PICK says \in Answers(a) : \E fault \in FaultsSeen(says), progressed, bounded \in BOOLEAN :
          ObserveEpisode(job[a].episode, fault, says = "running", progressed, bounded)
    BY <1>9 DEF Observe
  <2>2. PICK fault \in FaultsSeen(says), progressed \in BOOLEAN, bounded \in BOOLEAN :
          ObserveEpisode(job[a].episode, fault, says = "running", progressed, bounded)
    BY <2>1
  <2>3. (says = "running") \in BOOLEAN /\ spec' = spec
    BY <1>9 DEF Observe, taskVars
  <2> QED BY <2>2, <2>3, ObserveStep
<1>10. ASSUME NEW a \in Attempts, GiveUp(a) \/ Suspend(a) PROVE EpisodeInv'
  BY <1>0, <1>10, OtherStep DEF GiveUp, Suspend, taskVars
<1>11. CASE Elapse
  BY <1>11, ElapseStep
<1>12. CASE UNCHANGED vars
  BY <1>0, <1>12, OtherStep DEF vars, taskVars
<1> QED BY <1>1, <1>2, <1>3, <1>4, <1>5, <1>6, <1>7, <1>8, <1>9, <1>10, <1>11, <1>12
        DEF Next, Drive, Settle

LEMMA EpisodeInit == Init => EpisodeInv
<1> SUFFICES ASSUME Init PROVE EpisodeInv
  OBVIOUS
<1>1. Len(episodes) = 0 /\ DOMAIN episodes = {} /\ episodes \in Seq(Row)
  BY EmptySeq, LenProperties DEF Init
<1>2. Shaped
  BY <1>1, EpisodeAssumption DEF Init, Shaped
<1> QED BY <1>1, <1>2 DEF Init, EpisodeInv, OneActive, Shared, WithinDeadline

LEMMA EpisodeInvariant == Spec => []EpisodeInv
BY EpisodeInit, EpisodeStep, PTL DEF Spec

-----------------------------------------------------------------------------
(* Whatever the watchdog, the operators and the crashes do, an episode that *)
(* is not the latest of its task is over: no process is ever left in an    *)
(* episode that prepare does not look at.                                  *)
THEOREM OnlyLatestActive == Spec => []OneActive
<1>1. EpisodeInv => OneActive
  BY DEF EpisodeInv
<1> QED BY <1>1, EpisodeInvariant, PTL

(* No recovery, extension, suspension, crash or operator gives a           *)
(* specification more time than its first episode had: all its episodes    *)
(* share one deadline, and the wall clock of the latest ends before it.    *)
THEOREM DeadlineIsInherited == Spec => []DeadlineInherited
<1>1. EpisodeInv => DeadlineInherited
  BY DEF EpisodeInv, Shared, WithinDeadline, DeadlineInherited
<1> QED BY <1>1, EpisodeInvariant, PTL

-----------------------------------------------------------------------------
(* Types.                                                                  *)

RcTyped ==
  /\ rc.pc \in {"idle", "cancel", "terminate", "finalize", "verify", "confirm", "complete",
                "consume"}
  /\ rc.pc # "idle" => rc.job \in Attempts
  /\ rc.pc = "finalize" => rc.act \in {"ready", "human", "suspended"}
  /\ rc.pc = "terminate" => rc.act \in {"bounded", "ready", "human", "suspended"}
  /\ rc = [pc |-> rc.pc, job |-> rc.job, act |-> rc.act, force |-> rc.force]

Typed == EpisodeTypeOK /\ RcTyped

Tasks     == {"ready", "running", "stopping", "human", "suspended", "over"}
Numbers   == 0..(MaxSpec * MaxAttempts)
WatchType == [wall : 0..Deadline, idle : 0..NoProgress, fault : Faults \cup {"none", "human"},
              same : 0..SameFaults]
JobType   == [episode : 0..MaxEpisodes, says : Verdicts \cup {"running"}, done : BOOLEAN]

LEMMA Bounds ==
  /\ Deadline \in Nat /\ WallLimit \in Nat /\ Extension \in Nat /\ NoProgress \in Nat
  /\ MaxProcesses \in Nat /\ MaxProcesses # 0 /\ SameFaults \in Nat /\ SameFaults # 0
  /\ MaxAttempts \in Nat /\ MaxAttempts # 0 /\ MaxSpec \in Nat /\ MaxSpec # 0
  /\ MaxEpisodes \in Nat /\ MaxUpsets \in Nat /\ Numbers = 0..(MaxSpec * MaxAttempts)
  /\ MaxSpec * MaxAttempts \in Nat /\ 0 \in Numbers /\ Attempts \subseteq Numbers
<1>1. /\ Deadline \in Nat /\ WallLimit \in Nat /\ Extension \in Nat /\ NoProgress \in Nat
      /\ MaxProcesses \in Nat /\ MaxProcesses # 0 /\ SameFaults \in Nat /\ SameFaults # 0
      /\ MaxAttempts \in Nat /\ MaxAttempts # 0 /\ MaxSpec \in Nat /\ MaxSpec # 0
      /\ MaxEpisodes \in Nat /\ MaxUpsets \in Nat
  BY EpisodeAssumption
<1>2. MaxSpec * MaxAttempts \in Nat
  BY <1>1
<1>3. 0 \in Numbers /\ Attempts \subseteq Numbers
  BY <1>2 DEF Numbers, Attempts
<1> QED BY <1>1, <1>2, <1>3 DEF Numbers

LEMMA TypeParts ==
  EpisodeTypeOK <=>
  /\ task \in Tasks /\ spec \in 1..MaxSpec /\ used \in 0..MaxAttempts /\ checkpoint \in Numbers
  /\ episodes \in Seq(EpisodeRow) /\ watch \in WatchType /\ job \in [Attempts -> JobType]
  /\ driver \in Numbers /\ upsets \in 0..MaxUpsets
BY DEF EpisodeTypeOK, Tasks, Numbers, WatchType, JobType

LEMMA TypePartsNext ==
  EpisodeTypeOK' <=>
  /\ task' \in Tasks /\ spec' \in 1..MaxSpec /\ used' \in 0..MaxAttempts
  /\ checkpoint' \in Numbers
  /\ episodes' \in Seq(EpisodeRow) /\ watch' \in WatchType /\ job' \in [Attempts -> JobType]
  /\ driver' \in Numbers /\ upsets' \in 0..MaxUpsets
BY DEF EpisodeTypeOK, Tasks, Numbers, WatchType, JobType

LEMMA WatchParts ==
  ASSUME watch \in WatchType
  PROVE  /\ watch.wall \in Nat /\ watch.wall <= Deadline /\ watch.idle \in 0..NoProgress
         /\ watch.fault \in Faults \cup {"none", "human"} /\ watch.same \in 0..SameFaults
         /\ watch = [wall |-> watch.wall, idle |-> watch.idle, fault |-> watch.fault,
                     same |-> watch.same]
<1>1. watch.wall \in 0..Deadline
  BY DEF WatchType
<1> QED BY <1>1, Bounds DEF WatchType

LEMMA WatchMade ==
  ASSUME NEW w \in Nat, w <= Deadline, NEW n \in 0..NoProgress,
         NEW f \in Faults \cup {"none", "human"}, NEW k \in 0..SameFaults
  PROVE  [wall |-> w, idle |-> n, fault |-> f, same |-> k] \in WatchType
<1>1. w \in 0..Deadline
  BY Bounds
<1> QED BY <1>1 DEF WatchType

(* What the steps write to the reconciler's place.                          *)
RcKeepsType ==
  \/ UNCHANGED rc \/ rc' = Idle
  \/ \E a \in Attempts : \/ \E pc \in {"cancel", "verify", "confirm", "consume"} : rc' = Goes(a, pc)
                         \/ rc' = Settles(a)
                         \/ \E act \in {"human", "bounded", "suspended"} : \E force :
                              rc' = Ends(a, act, force)
  \/ rc.pc # "idle" /\ \E pc \in {"complete", "consume"} : RcTo(pc)
  \/ rc.pc # "idle" /\ \E act \in {"bounded", "human", "ready"} :
                         rc' = [rc EXCEPT !.pc = "terminate", !.act = act]
  \/ rc.pc # "idle" /\ \E act \in {"human", "ready", "suspended"} :
                         rc' = [rc EXCEPT !.pc = "finalize", !.act = act]

LEMMA RcStays == RcTyped /\ RcKeepsType => RcTyped'
<1> SUFFICES ASSUME RcTyped, RcKeepsType PROVE RcTyped'
  OBVIOUS
<1> USE DEF RcTyped
<1>1. CASE UNCHANGED rc \/ rc' = Idle
  BY <1>1 DEF Idle
<1>2. ASSUME NEW a \in Attempts, NEW pc \in {"cancel", "verify", "confirm", "consume"},
             rc' = Goes(a, pc)
      PROVE  RcTyped'
  BY <1>2 DEF Goes, Idle
<1>3. ASSUME NEW a \in Attempts, rc' = Settles(a) PROVE RcTyped'
  BY <1>3 DEF Settles, Goes, Idle
<1>4. ASSUME NEW a \in Attempts, NEW act \in {"human", "bounded", "suspended"}, NEW force,
             rc' = Ends(a, act, force)
      PROVE  RcTyped'
  BY <1>4 DEF Ends, Goes, Idle
<1>5. ASSUME rc.pc # "idle", NEW pc \in {"complete", "consume"}, RcTo(pc) PROVE RcTyped'
  BY <1>5 DEF RcTo
<1>6. ASSUME rc.pc # "idle", NEW act \in {"bounded", "human", "ready"},
             rc' = [rc EXCEPT !.pc = "terminate", !.act = act]
      PROVE  RcTyped'
  BY <1>6
<1>7. ASSUME rc.pc # "idle", NEW act \in {"human", "ready", "suspended"},
             rc' = [rc EXCEPT !.pc = "finalize", !.act = act]
      PROVE  RcTyped'
  BY <1>7
<1> QED BY <1>1, <1>2, <1>3, <1>4, <1>5, <1>6, <1>7 DEF RcKeepsType

(* Attempt k of the current specification is an attempt.                    *)
LEMMA AttemptInRange ==
  ASSUME spec \in 1..MaxSpec, NEW k \in 1..MaxAttempts
  PROVE  (spec - 1) * MaxAttempts + k \in Attempts
<1>1. MaxAttempts \in Nat /\ MaxSpec \in Nat
  BY Bounds
<1>2. (spec - 1) * MaxAttempts \in Nat /\ (MaxSpec - spec) * MaxAttempts \in Nat
  BY <1>1
<1>3. MaxSpec * MaxAttempts = (spec - 1) * MaxAttempts + MaxAttempts + (MaxSpec - spec) * MaxAttempts
  BY <1>1
<1> DEFINE x == (spec - 1) * MaxAttempts
           y == (MaxSpec - spec) * MaxAttempts
           z == MaxSpec * MaxAttempts
<1>4. x \in Nat /\ y \in Nat /\ z = x + MaxAttempts + y
  BY <1>2, <1>3
<1> HIDE DEF x, y, z
<1>5. x + k \in 1..z
  BY <1>1, <1>4
<1> QED BY <1>5 DEF x, z, Attempts

LEMMA RowsAgree == EpisodeTypeOK => \A i \in DOMAIN episodes : episodes[i] \in EpisodeRow
BY LenProperties, ElementOfSeq DEF EpisodeTypeOK

LEMMA FreshTyped ==
  ASSUME EpisodeInv, EpisodeTypeOK, FreshEpisode.recovery <= 3 PROVE FreshEpisode \in EpisodeRow
<1>1. FreshEpisode \in Row /\ FreshEpisode.spec = spec
  BY FreshIsShared
<1>2. FreshEpisode.deadline \in 0..Deadline
  <2>1. CASE EpisodesOf(spec) = {}
    BY <2>1, Bounds DEF FreshEpisode
  <2>2. CASE EpisodesOf(spec) # {}
    <3>1. PICK i \in DOMAIN episodes : episodes[i].spec = spec
      BY <2>2 DEF EpisodesOf
    <3>2. FirstDeadline(spec) = episodes[i].deadline
      BY <3>1, FirstIsShared DEF EpisodeInv
    <3>3. episodes[i].deadline \in 0..Deadline
      BY <3>1, RowsAgree DEF EpisodeRow
    <3> QED BY <2>2, <3>2, <3>3 DEF FreshEpisode
  <2> QED BY <2>1, <2>2
<1>3. FreshEpisode.recovery \in 0..3
  BY <1>1 DEF Row
<1>4. FreshEpisode = [spec |-> spec, status |-> "active", recovery |-> FreshEpisode.recovery,
                      processes |-> 0, deadline |-> FreshEpisode.deadline]
  BY DEF FreshEpisode
<1>5. 0 \in 0..MaxProcesses /\ spec \in 1..MaxSpec
  BY Bounds DEF EpisodeTypeOK
<1> HIDE DEF FreshEpisode
<1> QED BY <1>2, <1>3, <1>4, <1>5 DEF EpisodeRow

(* What prepare writes: a row and a watch, in the latest episode or in a    *)
(* fresh one, which has room for the process.                               *)
LEMMA PrepareWrites ==
  ASSUME EpisodeInv, Prepare
  PROVE  \/ /\ Continues /\ UNCHANGED watch /\ episodes # <<>>
            /\ Latest.processes < MaxProcesses /\ Len(episodes) <= MaxEpisodes
            /\ episodes' = [episodes EXCEPT ![Len(episodes)] =
                              [Latest EXCEPT !.processes = @ + 1]]
            /\ job' = [job EXCEPT ![driver] = [NoJob EXCEPT !.episode = Len(episodes)]]
         \/ /\ ~Continues /\ watch' = FreshWatch(FreshEpisode)
            /\ FreshEpisode.recovery <= 3 /\ Len(episodes) + 1 <= MaxEpisodes
            /\ episodes' = Append(episodes, [FreshEpisode EXCEPT !.processes = @ + 1])
            /\ job' = [job EXCEPT ![driver] = [NoJob EXCEPT !.episode = Len(episodes) + 1]]
<1> DEFINE n == Len(episodes)
<1>0. episodes \in Seq(Row) /\ n \in Nat /\ DOMAIN episodes = 1..n
  BY LenProperties DEF EpisodeInv, Shaped
<1>1. CASE Continues
  <2>1. episodes # <<>> /\ n \in DOMAIN episodes /\ Latest = episodes[n]
    BY <1>1, LatestIsRow DEF Continues, EpisodeInv, Latest
  <2>2. ClampedRow(episodes[n]) = Latest /\ ClampedWatch(Latest) = watch
    BY <2>1, ClampIsIdle
  <2>3. [episodes EXCEPT ![n] = ClampedRow(@)] = episodes
    <3>1. episodes = [k \in DOMAIN episodes |-> episodes[k]]
      BY <1>0, LenProperties
    <3> QED BY <2>1, <2>2, <3>1
  <2>4. /\ episodes[n].processes < MaxProcesses /\ n <= MaxEpisodes /\ watch' = watch
        /\ episodes' = [episodes EXCEPT ![n].processes = @ + 1]
        /\ job' = [job EXCEPT ![driver] = [NoJob EXCEPT !.episode = n]]
    BY <1>1, <2>2, <2>3 DEF Prepare
  <2> QED BY <1>1, <2>1, <2>4
<1>2. CASE ~Continues
  <2> DEFINE f == FreshEpisode
             s == Append(episodes, f)
             g == [f EXCEPT !.processes = @ + 1]
  <2>1. f \in Row
    BY FreshIsShared
  <2> HIDE DEF f
  <2>2. s \in Seq(Row) /\ Len(s) = n + 1 /\ s[n + 1] = f
        /\ \A i \in 1..n : s[i] = episodes[i]
    BY <1>0, <2>1, AppendProperties
  <2>3. /\ f.recovery <= 3 /\ n + 1 <= MaxEpisodes /\ watch' = FreshWatch(f)
        /\ episodes' = [s EXCEPT ![n + 1].processes = @ + 1]
        /\ job' = [job EXCEPT ![driver] = [NoJob EXCEPT !.episode = n + 1]]
    BY <1>2, <2>2 DEF Prepare, f
  <2>4. episodes' = Append(episodes, g)
    <3>1. g \in Row
      BY <2>1 DEF Row
    <3>2. episodes' = [s EXCEPT ![n + 1] = g]
      BY <2>2, <2>3
    <3> HIDE DEF g, s
    <3>3. episodes' \in Seq(Row) /\ Len(episodes') = n + 1 /\ episodes'[n + 1] = g
            /\ \A i \in 1..n : episodes'[i] = episodes[i]
      <4>1. n + 1 \in 1..Len(s) /\ \A i \in 1..n : i \in 1..Len(s) /\ i # n + 1
        BY <1>0, <2>2
      <4> QED BY <2>2, <3>1, <3>2, <4>1, ExceptSeq
    <3>4. /\ Append(episodes, g) \in Seq(Row) /\ Len(Append(episodes, g)) = n + 1
          /\ Append(episodes, g)[n + 1] = g
          /\ \A i \in 1..n : Append(episodes, g)[i] = episodes[i]
      BY <1>0, <3>1, AppendProperties
    <3>5. \A i \in 1..(n + 1) : episodes'[i] = Append(episodes, g)[i]
      BY <1>0, <3>3, <3>4
    <3> QED BY <1>0, <3>3, <3>4, <3>5, SeqEqual
  <2> QED BY <1>2, <2>3, <2>4 DEF f
<1> QED BY <1>1, <1>2

LEMMA PrepareTyped ==
  ASSUME EpisodeInv, EpisodeTypeOK, Prepare
  PROVE  driver \in Attempts /\ job' \in [Attempts -> JobType] /\ episodes' \in Seq(EpisodeRow)
         /\ watch' \in WatchType
<1>0. /\ episodes \in Seq(EpisodeRow) /\ Len(episodes) \in Nat /\ watch \in WatchType
      /\ driver \in Numbers /\ job \in [Attempts -> JobType]
  BY TypeParts, LenProperties
<1>1. driver \in Attempts
  <2>1. driver # 0
    BY DEF Prepare
  <2> QED BY <1>0, <2>1, Bounds DEF Attempts
<1>2. ASSUME NEW n \in 0..MaxEpisodes, job' = [job EXCEPT ![driver] = [NoJob EXCEPT !.episode = n]]
      PROVE  job' \in [Attempts -> JobType]
  <2>1. [NoJob EXCEPT !.episode = n] \in JobType
    BY DEF NoJob, JobType
  <2> QED BY <1>0, <1>2, <2>1
<1>3. CASE /\ Continues /\ UNCHANGED watch /\ episodes # <<>>
           /\ Latest.processes < MaxProcesses /\ Len(episodes) <= MaxEpisodes
           /\ episodes' = [episodes EXCEPT ![Len(episodes)] =
                             [Latest EXCEPT !.processes = @ + 1]]
           /\ job' = [job EXCEPT ![driver] = [NoJob EXCEPT !.episode = Len(episodes)]]
  <2>1. Latest \in EpisodeRow
    BY <1>3, LatestIsRow, RowsAgree DEF EpisodeInv, Latest
  <2>2. Latest.processes + 1 \in 0..MaxProcesses
    BY SMTT(30), <1>3, <2>1, Bounds DEF EpisodeRow
  <2>3. [Latest EXCEPT !.processes = @ + 1] \in EpisodeRow
    BY <2>1, <2>2 DEF EpisodeRow
  <2>4. episodes' \in Seq(EpisodeRow)
    BY <1>0, <1>3, <2>3, OneRow
  <2>5. Len(episodes) \in 0..MaxEpisodes
    BY <1>0, <1>3, Bounds
  <2> QED BY <1>0, <1>1, <1>2, <1>3, <2>4, <2>5
<1>4. CASE /\ ~Continues /\ watch' = FreshWatch(FreshEpisode)
           /\ FreshEpisode.recovery <= 3 /\ Len(episodes) + 1 <= MaxEpisodes
           /\ episodes' = Append(episodes, [FreshEpisode EXCEPT !.processes = @ + 1])
           /\ job' = [job EXCEPT ![driver] = [NoJob EXCEPT !.episode = Len(episodes) + 1]]
  <2>1. FreshEpisode \in EpisodeRow /\ FreshEpisode.processes = 0
    BY <1>4, FreshTyped DEF FreshEpisode
  <2> HIDE DEF FreshEpisode
  <2>2. FreshEpisode.processes + 1 \in 0..MaxProcesses /\ FreshEpisode.deadline \in 0..Deadline
    BY <2>1, Bounds DEF EpisodeRow
  <2>3. [FreshEpisode EXCEPT !.processes = @ + 1] \in EpisodeRow
    BY <2>1, <2>2 DEF EpisodeRow
  <2>4. episodes' \in Seq(EpisodeRow)
    BY <1>0, <1>4, <2>3, AppendProperties
  <2>5. watch' \in WatchType
    <3>1. Least(FreshEpisode.deadline, WallLimit) \in Nat
          /\ Least(FreshEpisode.deadline, WallLimit) <= Deadline
      BY <2>2, Bounds DEF Least
    <3>2. 0 \in 0..NoProgress /\ 0 \in 0..SameFaults
      BY Bounds
    <3> QED BY <1>4, <3>1, <3>2, WatchMade DEF FreshWatch
  <2>6. Len(episodes) + 1 \in 0..MaxEpisodes
    BY <1>0, <1>4, Bounds
  <2> QED BY <1>1, <1>2, <1>4, <2>4, <2>5, <2>6
<1> QED BY <1>3, <1>4, PrepareWrites

LEMMA ObserveTyped ==
  ASSUME EpisodeInv, EpisodeTypeOK, NEW i, NEW fault \in Faults \cup {"none", "human"},
         NEW running \in BOOLEAN, NEW progressed \in BOOLEAN, NEW bounded \in BOOLEAN,
         ObserveEpisode(i, fault, running, progressed, bounded)
  PROVE  episodes' \in Seq(EpisodeRow) /\ watch' \in WatchType
<1>0. episodes \in Seq(EpisodeRow) /\ watch \in WatchType
  BY TypeParts
<1>1. episodes' = episodes
  BY ObserveSees
<1>2. CASE UNCHANGED watch
  BY <1>0, <1>1, <1>2
<1>3. CASE ~UNCHANGED watch
  <2> DEFINE w == IF progressed THEN ExtendedWall(Latest, watch.wall) ELSE watch.wall
             n == IF progressed THEN 0 ELSE watch.idle
             f == IF fault = "none" /\ ~running THEN watch.fault ELSE fault
             k == SameCount(fault, running)
  <2>1. episodes # <<>>
    BY ObserveSees, EmptySeq
  <2>2. Latest.deadline \in 0..Deadline
    BY <2>1, LatestIsRow, RowsAgree DEF EpisodeInv, Latest, EpisodeRow
  <2>3. w \in Nat /\ w <= Deadline
    <3>1. Latest.deadline \in Nat /\ Latest.deadline <= Deadline
      BY <2>2, Bounds
    <3>2. ExtendedWall(Latest, watch.wall) \in Nat /\ ExtendedWall(Latest, watch.wall) <= Deadline
      <4>1. watch.wall \in Nat /\ Extension \in Nat /\ Deadline \in Nat
        BY <1>0, WatchParts, Bounds
      <4> QED BY <3>1, <4>1 DEF ExtendedWall, Least
    <3> HIDE DEF ExtendedWall
    <3> QED BY <1>0, <3>2, WatchParts
  <2>4. k \in 0..SameFaults
    <3>1. watch.same \in 0..SameFaults
      BY <1>0, WatchParts
    <3>2. 0 \in 0..SameFaults /\ 1 \in 0..SameFaults /\ Least(watch.same + 1, SameFaults) \in 0..SameFaults
      BY <3>1, Bounds DEF Least
    <3> QED BY <3>1, <3>2 DEF SameCount
  <2>5. n \in 0..NoProgress
    BY <1>0, WatchParts, Bounds
  <2>6. f \in Faults \cup {"none", "human"}
    BY <1>0, WatchParts
  <2>7. watch' = [wall |-> w, idle |-> n, fault |-> f, same |-> k]
    BY <1>3, ObserveSees
  <2> HIDE DEF w, n, f, k
  <2> QED BY <1>0, <1>1, <2>3, <2>4, <2>5, <2>6, <2>7, WatchMade
<1> QED BY <1>2, <1>3

LEMMA ElapseTyped ==
  ASSUME EpisodeInv, EpisodeTypeOK, Elapse
  PROVE  episodes' \in Seq(EpisodeRow) /\ watch' \in WatchType
<1>0. episodes \in Seq(EpisodeRow) /\ watch \in WatchType
  BY TypeParts
<1>1. episodes' \in Seq(EpisodeRow)
  <2> DEFINE n == Len(episodes)
             e(i) == [episodes[i] EXCEPT !.deadline = NotNegative(@ - 1)]
  <2>1. DOMAIN episodes = 1..n /\ n \in Nat
    BY <1>0, LenProperties
  <2>2. ASSUME NEW i \in 1..n PROVE e(i) \in EpisodeRow
    <3>1. episodes[i] \in EpisodeRow
      BY <2>1, <2>2, RowsAgree
    <3>2. NotNegative(episodes[i].deadline - 1) \in 0..Deadline
      BY <3>1, Bounds DEF EpisodeRow, NotNegative
    <3> QED BY <3>1, <3>2 DEF EpisodeRow
  <2>3. episodes' = [i \in 1..n |-> e(i)]
    BY <2>1 DEF Elapse
  <2> HIDE DEF e
  <2>4. episodes' \in [1..n -> EpisodeRow]
    BY <2>2, <2>3
  <2> QED BY <2>1, <2>4
<1>2. watch' \in WatchType
  <2> DEFINE w == NotNegative(watch.wall - 1)
             n == Least(watch.idle + 1, NoProgress)
  <2>1. w \in Nat /\ w <= Deadline
    BY SMTT(30), <1>0, WatchParts, Bounds DEF NotNegative
  <2>2. n \in 0..NoProgress
    <3>1. watch.idle \in 0..NoProgress
      BY <1>0, WatchParts
    <3> QED BY <3>1, Bounds DEF Least
  <2>3. watch' = [wall |-> w, idle |-> n, fault |-> watch.fault, same |-> watch.same]
    <3>1. watch' = [watch EXCEPT !.wall = NotNegative(@ - 1), !.idle = Least(@ + 1, NoProgress)]
      BY DEF Elapse
    <3>2. watch = [wall |-> watch.wall, idle |-> watch.idle, fault |-> watch.fault,
                   same |-> watch.same]
      BY <1>0, WatchParts
    <3> QED BY <3>1, <3>2
  <2> HIDE DEF w, n
  <2> QED BY <1>0, <2>1, <2>2, <2>3, WatchParts, WatchMade
<1> QED BY <1>1, <1>2

LEMMA EndTyped ==
  ASSUME EpisodeInv, EpisodeTypeOK, NEW i, NEW how \in {"terminated", "completed", "circuit_open"},
         EndEpisode(i, how)
  PROVE  episodes' \in Seq(EpisodeRow)
<1> DEFINE e == [episodes[i] EXCEPT !.status = IF @ = "active" THEN how ELSE @]
<1>1. episodes' = [episodes EXCEPT ![i] = e]
  BY DEF EndEpisode
<1>2. i \in DOMAIN episodes => e \in EpisodeRow
  <2>1. SUFFICES ASSUME i \in DOMAIN episodes PROVE e \in EpisodeRow
    OBVIOUS
  <2>2. episodes[i] \in EpisodeRow
    BY <2>1, RowsAgree
  <2> QED BY <2>2 DEF EpisodeRow
<1> HIDE DEF e
<1> QED BY <1>1, <1>2, OneRow, TypeParts

LEMMA TypedStep ==
  ASSUME EpisodeInv, Typed, [Next]_vars PROVE Typed'
<1> USE DEF Typed, Tasks
<1>0. NoJob \in JobType /\ 0 \in Numbers /\ 0 \in 0..MaxAttempts
  BY Bounds DEF NoJob, JobType
<1>1. ASSUME UNCHANGED <<episodes, watch>>, RcKeepsType,
             task' \in Tasks, spec' \in 1..MaxSpec, used' \in 0..MaxAttempts,
             checkpoint' \in Numbers, job' \in [Attempts -> JobType],
             driver' \in Numbers, upsets' \in 0..MaxUpsets
      PROVE  Typed'
  BY <1>1, RcStays, TypeParts, TypePartsNext DEF Typed
<1>2. /\ RcTyped /\ EpisodeTypeOK /\ task \in Tasks /\ spec \in 1..MaxSpec /\ used \in 0..MaxAttempts
      /\ checkpoint \in Numbers /\ job \in [Attempts -> JobType] /\ driver \in Numbers
      /\ upsets \in 0..MaxUpsets
  BY TypeParts DEF Typed
<1>3. ASSUME UNCHANGED <<taskVars, driver, upsets>>, RcKeepsType,
             job' \in [Attempts -> JobType], episodes' \in Seq(EpisodeRow), watch' \in WatchType
      PROVE  Typed'
  BY <1>2, <1>3, RcStays, TypePartsNext DEF Typed, taskVars
<1>4. CASE Claim
  <2>1. driver' \in Numbers /\ used' \in 0..MaxAttempts
    <3>1. CASE checkpoint # 0 /\ driver' = checkpoint /\ used' = used
      BY <1>2, <3>1
    <3>2. CASE checkpoint = 0 /\ used < MaxAttempts /\ driver' = Attempt + 1 /\ used' = used + 1
      <4>1. used + 1 \in 1..MaxAttempts /\ used + 1 \in 0..MaxAttempts
        BY <1>2, <3>2, Bounds
      <4>2. (spec - 1) * MaxAttempts + (used + 1) \in Attempts
        BY <1>2, <4>1, AttemptInRange
      <4>3. Attempt + 1 = (spec - 1) * MaxAttempts + (used + 1)
        <5>1. (spec - 1) * MaxAttempts \in Int /\ used \in Int
          BY <1>0, <1>2, Bounds
        <5> DEFINE x == (spec - 1) * MaxAttempts
        <5>2. x \in Int /\ Attempt = x + used
          BY <5>1 DEF Attempt
        <5> HIDE DEF x
        <5>3. Attempt + 1 = x + (used + 1)
          BY <5>1, <5>2
        <5> QED BY <5>3 DEF x
      <4>4. Attempt + 1 \in Numbers
        BY <4>2, <4>3, Bounds
      <4> QED BY <3>2, <4>1, <4>4
    <3> QED BY <1>4, <3>1, <3>2 DEF Claim
  <2> QED BY <1>0, <1>1, <1>2, <1>4, <2>1 DEF Claim, RcKeepsType
<1>5. CASE Prepare
  <2>1. UNCHANGED <<taskVars, rc, upsets>> /\ driver' = 0
    BY <1>5 DEF Prepare
  <2>2. RcTyped'
    BY <1>2, <2>1 DEF RcTyped
  <2> QED BY <1>0, <1>2, <1>5, <2>1, <2>2, PrepareTyped, TypePartsNext DEF Typed, taskVars
<1>6. CASE HardDeadline \/ Refused \/ Recover
  BY <1>0, <1>1, <1>2, <1>6 DEF HardDeadline, Refused, Recover, taskVars, RcKeepsType
<1>7. CASE CancelReaches \/ CancelFails
  <2>1. RcKeepsType
    BY <1>7 DEF CancelReaches, CancelFails, RcKeepsType
  <2> QED BY <1>0, <1>1, <1>2, <1>7, <2>1 DEF CancelReaches, CancelFails, taskVars
<1>8. CASE Finalize
  <2>1. rc.act \in Tasks /\ rc.job \in Attempts
    BY <1>8 DEF Finalize, RcTyped
  <2>2. job' \in [Attempts -> JobType]
    BY <1>0, <1>2, <1>8, <2>1 DEF Finalize
  <2>3. task' \in Tasks /\ checkpoint' \in Numbers
    BY <1>2, <1>8, <2>1, Bounds DEF Finalize
  <2> QED BY <1>0, <1>1, <1>2, <1>8, <2>2, <2>3 DEF Finalize, RcKeepsType
<1>9. CASE Finish
  <2>1. rc.job \in Attempts /\ RcKeepsType
    BY <1>9 DEF Finish, RcTyped, RcKeepsType
  <2>2. job' \in [Attempts -> JobType]
    <3>1. job[rc.job] \in JobType
      BY <1>2, <2>1
    <3>2. [job[rc.job] EXCEPT !.done = TRUE] \in JobType
      BY <3>1 DEF JobType
    <3>3. job' \in {job, [job EXCEPT ![rc.job] = [job[rc.job] EXCEPT !.done = TRUE]]}
      BY <1>9 DEF Finish
    <3> QED BY <1>2, <3>2, <3>3
  <2>3. task' \in Tasks
    BY <1>2, <1>9 DEF Finish
  <2> QED BY <1>0, <1>1, <1>2, <1>9, <2>1, <2>2, <2>3 DEF Finish
<1>10. CASE EvidenceRefused
  <2>1. RcKeepsType
    BY <1>10 DEF EvidenceRefused, RcKeepsType
  <2> QED BY <1>0, <1>1, <1>2, <1>10, <2>1 DEF EvidenceRefused, taskVars
<1>11. CASE ConfirmCancel
  <2>1. RcKeepsType /\ task' \in Tasks
    BY <1>2, <1>11 DEF ConfirmCancel, RcKeepsType
  <2> QED BY <1>0, <1>1, <1>2, <1>11, <2>1 DEF ConfirmCancel
<1>12. CASE Consume
  <2>1. rc.job \in Attempts
    BY <1>12 DEF Consume, RcTyped
  <2>2. job' \in [Attempts -> JobType]
    BY <1>0, <1>2, <1>12, <2>1 DEF Consume
  <2> QED BY <1>0, <1>1, <1>2, <1>12, <2>2 DEF Consume, taskVars, RcKeepsType
<1>13. CASE Crash
  BY SMTT(30), <1>0, <1>1, <1>2, <1>13, Bounds DEF Crash, taskVars, RcKeepsType
<1>14. CASE Operate
  <2>1. UNCHANGED <<episodes, watch, job, driver, rc>> /\ RcKeepsType /\ task' \in Tasks
    BY <1>14 DEF Operate, Cancel, ResumeSuspended, OperatorResume, ReplaceSpec, RcKeepsType
  <2>2. checkpoint' \in {checkpoint, 0} /\ used' \in {used, 0}
    BY <1>14 DEF Operate, Cancel, ResumeSuspended, OperatorResume, ReplaceSpec
  <2>3. upsets' \in 0..MaxUpsets
    BY <1>2, <1>14, Bounds DEF Operate, Cancel, ResumeSuspended, OperatorResume, ReplaceSpec
  <2>4. spec' \in 1..MaxSpec
    BY <1>2, <1>14, Bounds DEF Operate, Cancel, ResumeSuspended, OperatorResume, ReplaceSpec
  <2> QED BY <1>0, <1>1, <1>2, <2>1, <2>2, <2>3, <2>4
<1>15. CASE Terminate \/ Complete
  <2>1. episodes' \in Seq(EpisodeRow) /\ UNCHANGED <<watch, taskVars, job, driver, upsets>>
    BY <1>15, EndTyped DEF Terminate, Complete
  <2>2. RcKeepsType
    <3>1. CASE Terminate
      <4>1. rc.pc # "idle" /\ rc.act \in {"bounded", "ready", "human", "suspended"}
        BY <3>1 DEF Terminate, RcTyped
      <4>2. \E act \in {"human", "ready", "suspended"} :
              rc' = [rc EXCEPT !.pc = "finalize", !.act = act]
        <5> DEFINE opens == Opens(episodes[job[rc.job].episode])
        <5>1. rc' = [rc EXCEPT !.pc = "finalize",
                               !.act = IF @ # "bounded" THEN @
                                       ELSE IF opens THEN "human" ELSE "ready"]
          BY <3>1 DEF Terminate
        <5> HIDE DEF opens
        <5> QED BY <4>1, <5>1
      <4> QED BY <4>1, <4>2 DEF RcKeepsType
    <3>2. CASE Complete
      BY <3>2 DEF Complete, RcKeepsType
    <3> QED BY <1>15, <3>1, <3>2
  <2>3. watch' \in WatchType
    BY <2>1, TypeParts
  <2> QED BY <1>2, <1>3, <2>1, <2>2, <2>3
<1>16. CASE VerifyFails
  <2>1. PICK bounded \in BOOLEAN :
          /\ ObserveEpisode(job[rc.job].episode, "transient_transport", FALSE, FALSE, bounded)
          /\ rc' = IF bounded THEN Ends(rc.job, "bounded", FALSE) ELSE Idle
    BY <1>16 DEF VerifyFails
  <2>2. "transient_transport" \in Faults \cup {"none", "human"} /\ FALSE \in BOOLEAN
    BY DEF Faults
  <2>3. rc.job \in Attempts
    BY <1>16 DEF VerifyFails, RcTyped
  <2>4. RcKeepsType
    BY <2>1, <2>3 DEF RcKeepsType
  <2> QED BY <1>2, <1>3, <1>16, <2>1, <2>2, <2>4, ObserveTyped DEF VerifyFails
<1>17. ASSUME NEW a \in Attempts, Observe(a) PROVE Typed'
  <2>1. PICK says \in Answers(a) : \E fault \in FaultsSeen(says), progressed, bounded \in BOOLEAN :
          /\ ObserveEpisode(job[a].episode, fault, says = "running", progressed, bounded)
          /\ job' = [job EXCEPT ![a].says = says]
          /\ rc' \in Reactions(a, says, bounded)
    BY <1>17 DEF Observe
  <2>2. PICK fault \in FaultsSeen(says), progressed \in BOOLEAN, bounded \in BOOLEAN :
          /\ ObserveEpisode(job[a].episode, fault, says = "running", progressed, bounded)
          /\ job' = [job EXCEPT ![a].says = says]
          /\ rc' \in Reactions(a, says, bounded)
    BY <2>1
  <2>3. says \in Verdicts \cup {"running"}
    <3>1. job[a] \in JobType
      BY <1>2, <1>17
    <3>2. job[a].says \in Verdicts \cup {"running"}
      BY <3>1 DEF JobType
    <3> QED BY <3>2 DEF Answers
  <2>4. fault \in Faults \cup {"none", "human"} /\ (says = "running") \in BOOLEAN
    BY <2>3 DEF FaultsSeen, Verdicts, Faults
  <2>5. job' \in [Attempts -> JobType]
    <3>1. [job[a] EXCEPT !.says = says] \in JobType
      BY <1>2, <1>17, <2>3 DEF JobType
    <3> QED BY <1>2, <2>2, <3>1
  <2>6. RcKeepsType
    <3>1. \/ rc' = Idle \/ rc' = Settles(a)
          \/ \E pc \in {"cancel", "verify", "confirm", "consume"} : rc' = Goes(a, pc)
          \/ rc' = Ends(a, "human", TRUE) \/ rc' = Ends(a, "bounded", FALSE)
      <4> HIDE DEF Goes, Ends, Settles, Idle
      <4> QED BY <2>2, <2>3 DEF Reactions
    <3> QED BY <1>17, <3>1 DEF RcKeepsType
  <2>7. UNCHANGED <<taskVars, driver, upsets>>
    BY <1>17 DEF Observe
  <2>8. episodes' \in Seq(EpisodeRow) /\ watch' \in WatchType
    <3>1. PICK running \in BOOLEAN : running = (says = "running")
      BY <2>4
    <3>2. ObserveEpisode(job[a].episode, fault, running, progressed, bounded)
      BY <2>2, <3>1
    <3> QED BY <1>2, <2>4, <3>2, ObserveTyped
  <2> QED BY <1>3, <2>5, <2>6, <2>7, <2>8
<1>18. ASSUME NEW a \in Attempts, GiveUp(a) \/ Suspend(a) PROVE Typed'
  <2>1. RcKeepsType
    BY <1>18 DEF GiveUp, Suspend, RcKeepsType
  <2> QED BY <1>0, <1>1, <1>2, <1>18, <2>1 DEF GiveUp, Suspend, taskVars
<1>19. CASE Elapse
  BY <1>2, <1>3, <1>19, ElapseTyped DEF Elapse, RcKeepsType
<1>20. CASE UNCHANGED vars
  BY <1>0, <1>1, <1>2, <1>20 DEF vars, taskVars, RcKeepsType
<1> QED BY <1>4, <1>5, <1>6, <1>7, <1>8, <1>9, <1>10, <1>11, <1>12, <1>13, <1>14, <1>15,
           <1>16, <1>17, <1>18, <1>19, <1>20 DEF Next, Drive, Settle

LEMMA TypedHolds == Spec => [](EpisodeInv /\ Typed)
<1>1. Init => Typed
  <2> SUFFICES ASSUME Init PROVE Typed
    OBVIOUS
  <2>1. MaxSpec * MaxAttempts \in Nat
    BY Bounds
  <2>2. /\ 0 \in 0..MaxAttempts /\ 1 \in 1..MaxSpec /\ 0 \in 0..NoProgress
        /\ 0 \in 0..SameFaults /\ 0 \in 0..MaxEpisodes /\ 0 \in 0..MaxUpsets
    BY Bounds
  <2>3. episodes \in Seq(EpisodeRow)
    BY EmptySeq DEF Init
  <2>4. NoJob \in JobType
    BY <2>2 DEF NoJob, JobType
  <2>5. watch \in WatchType
    BY <2>2, Bounds, WatchMade DEF Init
  <2>6. EpisodeTypeOK
    BY <2>2, <2>3, <2>4, <2>5, Bounds, TypeParts DEF Init, Tasks
  <2> QED BY <2>6 DEF Init, Typed, RcTyped, Idle
<1> QED BY <1>1, TypedStep, EpisodeInvariant, PTL DEF Spec

(* Every variable of the episodes keeps its type; in particular no episode  *)
(* runs more processes than its limit, none climbs beyond the last step of *)
(* the ladder, and no clock exceeds the deadline of a specification.       *)
THEOREM EpisodeTypeCorrect == Spec => []EpisodeTypeOK
<1>1. Typed => EpisodeTypeOK
  BY DEF Typed
<1> QED BY <1>1, TypedHolds, PTL

-----------------------------------------------------------------------------
(* A ready task can start.                                                  *)
(*                                                                          *)
(* A task has one job at work, and only while it runs and no driver holds   *)
(* a claim (OneJob).  So an episode that goes on and has no room left is    *)
(* that of the job at work, or of the job whose verdict was just recorded   *)
(* and whose episode is completed next (FullInUse): a job whose episode is  *)
(* full is settled through its termination, never past it (SettledHasRoom). *)

Ending(a) == rc.pc \in {"complete", "consume"} /\ a = rc.job

OneJob ==
  /\ rc.pc # "idle" => Open(rc.job)
  /\ \A a \in Attempts : Open(a) => Ending(a) \/ (task \in {"running", "stopping"} /\ driver = 0)
  /\ \A a, b \in Attempts : Open(a) /\ Open(b) => Ending(a) \/ Ending(b) \/ a = b
  /\ driver # 0 => task \in {"running", "stopping"}

Full        == Continues /\ Latest.processes >= MaxProcesses
InLatest(a) == Open(a) /\ job[a].episode = Len(episodes)

FullInUse ==
  Full => \/ \E a \in Attempts : InLatest(a) /\ ~Ending(a)
          \/ rc.pc = "complete" /\ InLatest(rc.job)

SettledHasRoom == rc.pc = "finalize" /\ InLatest(rc.job) => ~Full

StartInv == OneJob /\ FullInUse /\ SettledHasRoom

(* The steps after which the jobs are in the episodes they were in.         *)
LEMMA PlacesKept ==
  ASSUME NEW a \in Attempts, job'[a].episode = job[a].episode
  PROVE  /\ Open(a)' <=> Open(a)
         /\ Len(episodes') = Len(episodes) => (InLatest(a)' <=> InLatest(a))
BY DEF Open, InLatest

LEMMA NoJobIsShut ==
  ASSUME Typed, NEW a \in Attempts, job' = [job EXCEPT ![a] = NoJob]
  PROVE  /\ ~Open(a)' /\ ~InLatest(a)'
         /\ \A b \in Attempts : b # a => job'[b] = job[b]
<1>1. job \in [Attempts -> JobType]
  BY TypeParts DEF Typed
<1> QED BY <1>1 DEF Open, InLatest, NoJob

(* A step that changes what a job says or whether it is done.               *)
LEMMA JobRemarked ==
  ASSUME Typed, NEW a \in Attempts, NEW x,
         job' = [job EXCEPT ![a].says = x] \/ job' = [job EXCEPT ![a].done = x] \/ job' = job
  PROVE  \A b \in Attempts : job'[b].episode = job[b].episode
<1>1. job \in [Attempts -> JobType] /\ job[a] \in JobType
  BY TypeParts DEF Typed
<1>2. [job[a] EXCEPT !.says = x].episode = job[a].episode
      /\ [job[a] EXCEPT !.done = x].episode = job[a].episode
  BY <1>1 DEF JobType
<1>3. CASE job' = [job EXCEPT ![a].says = x]
  BY <1>1, <1>2, <1>3
<1>4. CASE job' = [job EXCEPT ![a].done = x]
  BY <1>1, <1>2, <1>4
<1> QED BY <1>3, <1>4

(* Time, and the end of an episode, use no process.                         *)
LEMMA RowsUsed ==
  ASSUME EpisodeInv, Elapse \/ UNCHANGED episodes
  PROVE  Len(episodes') = Len(episodes) /\ (Full' <=> Full)
<1>1. CASE UNCHANGED episodes
  BY <1>1 DEF Full, Continues, Latest
<1>2. CASE Elapse
  <2> DEFINE n == Len(episodes)
             e(i) == [episodes[i] EXCEPT !.deadline = NotNegative(@ - 1)]
  <2>1. /\ episodes \in Seq(Row) /\ n \in Nat /\ DOMAIN episodes = 1..n
        /\ episodes' = [i \in 1..n |-> e(i)] /\ \A i \in 1..n : episodes[i] \in Row
    BY <1>2, LenProperties, ElementOfSeq DEF Elapse, EpisodeInv, Shaped
  <2>2. \A i \in 1..n : e(i).status = episodes[i].status /\ e(i).processes = episodes[i].processes
    BY <2>1 DEF Row
  <2> HIDE DEF e
  <2>3. Len(episodes') = n
    BY <2>1
  <2>4. CASE n = 0
    BY <2>1, <2>3, <2>4 DEF Full, Continues
  <2>5. CASE n # 0
    <3>1. n \in 1..n /\ episodes # <<>> /\ episodes' # <<>>
      BY <2>1, <2>3, <2>5
    <3>2. episodes'[n] = e(n)
      BY <2>1, <3>1
    <3> QED BY <2>2, <2>3, <3>1, <3>2 DEF Full, Continues, Latest
  <2> QED BY <2>3, <2>4, <2>5
<1> QED BY <1>1, <1>2

LEMMA EndUsed ==
  ASSUME EpisodeInv, NEW i, NEW how \in {"terminated", "completed", "circuit_open"},
         EndEpisode(i, how)
  PROVE  Len(episodes') = Len(episodes) /\ (Full' => Full /\ i # Len(episodes))
<1> DEFINE n == Len(episodes)
           e == [episodes[i] EXCEPT !.status = IF @ = "active" THEN how ELSE @]
<1>0. episodes \in Seq(Row) /\ DOMAIN episodes = 1..n /\ n \in Nat
  BY LenProperties DEF EpisodeInv, Shaped
<1>1. episodes' = [episodes EXCEPT ![i] = e]
  BY DEF EndEpisode
<1>2. ASSUME i \in DOMAIN episodes PROVE e \in Row /\ e.status # "active"
  <2>1. episodes[i] \in Row
    BY <1>0, <1>2, ElementOfSeq
  <2> QED BY <2>1 DEF Row
<1> HIDE DEF e
<1>3. /\ episodes' \in Seq(Row) /\ Len(episodes') = n
      /\ \A k \in DOMAIN episodes : episodes'[k] = IF k = i THEN e ELSE episodes[k]
  BY <1>0, <1>1, <1>2, OneRow
<1>4. SUFFICES ASSUME Full' PROVE Full /\ i # n
  BY <1>3
<1>5. n # 0 /\ episodes # <<>>
  BY <1>0, <1>3, <1>4, EmptySeq DEF Full, Continues
<1>6. n \in DOMAIN episodes /\ Latest' = IF n = i THEN e ELSE Latest
  BY <1>0, <1>3, <1>5 DEF Latest
<1> QED BY <1>2, <1>4, <1>5, <1>6 DEF Full, Continues

(* The steps that leave the jobs, their episodes and the reconciler alone.  *)
LEMMA StartStays ==
  ASSUME EpisodeInv, StartInv, UNCHANGED <<job, rc>>, Elapse \/ UNCHANGED episodes,
         \/ UNCHANGED <<task, driver>>
         \/ /\ \A a \in Attempts : Open(a) => Ending(a) \/ (task' \in {"running", "stopping"} /\ driver' = 0)
            /\ driver' # 0 => task' \in {"running", "stopping"}
  PROVE  StartInv'
<1>1. Len(episodes') = Len(episodes) /\ (Full' <=> Full)
  BY RowsUsed
<1>2. OneJob'
  BY DEF StartInv, OneJob, Open, Ending
<1>3. \A a : InLatest(a)' <=> InLatest(a)
  BY <1>1 DEF InLatest, Open
<1>4. FullInUse' /\ SettledHasRoom'
  BY <1>1, <1>3 DEF StartInv, FullInUse, SettledHasRoom, Ending
<1> QED BY <1>2, <1>4 DEF StartInv

(* The reconciler turns to job a, which is at work, or to none.             *)
LEMMA RcTurns ==
  ASSUME EpisodeInv, StartInv, UNCHANGED <<task, driver, episodes>>,
         \A a \in Attempts : job'[a].episode = job[a].episode,
         rc.pc \notin {"complete", "consume"}, rc'.pc \notin {"complete", "consume"},
         rc'.pc # "idle" => rc'.job \in Attempts /\ Open(rc'.job),
         rc'.pc = "finalize" /\ InLatest(rc'.job) => ~Full
  PROVE  StartInv'
<1>1. Len(episodes') = Len(episodes) /\ (Full' <=> Full)
  BY RowsUsed
<1>2. \A a \in Attempts : (Open(a)' <=> Open(a)) /\ (InLatest(a)' <=> InLatest(a))
  BY <1>1, PlacesKept
<1>3. \A a : ~Ending(a) /\ ~Ending(a)'
  BY DEF Ending
<1>4. OneJob'
  <2>1. (rc.pc # "idle" => Open(rc.job))'
    <3>1. CASE rc'.pc # "idle"
      <4>1. PICK j \in Attempts : j = rc'.job
        BY <3>1
      <4>2. Open(j)
        BY <3>1, <4>1
      <4>3. Open(j)'
        BY <1>2, <4>2
      <4> QED BY <4>1, <4>3 DEF Open
    <3> QED BY <3>1
  <2> QED BY <1>2, <1>3, <2>1 DEF StartInv, OneJob
<1>5. FullInUse'
  BY <1>1, <1>2, <1>3 DEF StartInv, FullInUse
<1>6. SettledHasRoom'
  <2>1. SUFFICES ASSUME rc'.pc = "finalize", InLatest(rc.job)' PROVE ~Full'
    BY DEF SettledHasRoom
  <2>2. PICK j \in Attempts : j = rc'.job
    BY <2>1
  <2>3. InLatest(j)'
    BY <2>1, <2>2 DEF InLatest, Open
  <2>4. InLatest(j)
    BY <1>2, <2>3
  <2> QED BY <1>1, <2>1, <2>2, <2>4
<1> QED BY <1>4, <1>5, <1>6 DEF StartInv

LEMMA PrepareStart ==
  ASSUME EpisodeInv, Typed, StartInv, Prepare PROVE StartInv'
<1>0. /\ UNCHANGED <<task, rc>> /\ driver' = 0 /\ driver # 0 /\ ~Open(driver)
  BY DEF Prepare, taskVars
<1>1. driver \in Attempts /\ job \in [Attempts -> JobType]
  BY PrepareTyped, TypeParts DEF Typed
<1> DEFINE n == Len(episodes')
<1>2. job' = [job EXCEPT ![driver] = [NoJob EXCEPT !.episode = n]] /\ n \in Nat /\ n # 0
  <2>1. episodes \in Seq(Row) /\ Len(episodes) \in Nat
    BY LenProperties DEF EpisodeInv, Shaped
  <2>2. CASE /\ Continues /\ UNCHANGED watch /\ episodes # <<>>
             /\ Latest.processes < MaxProcesses /\ Len(episodes) <= MaxEpisodes
             /\ episodes' = [episodes EXCEPT ![Len(episodes)] =
                               [Latest EXCEPT !.processes = @ + 1]]
             /\ job' = [job EXCEPT ![driver] = [NoJob EXCEPT !.episode = Len(episodes)]]
    <3>1. [Latest EXCEPT !.processes = @ + 1] \in Row
      BY <2>2, LatestIsRow DEF EpisodeInv, Row
    <3>2. Len(episodes') = Len(episodes)
      BY <2>1, <2>2, <3>1, OneRow
    <3>3. Len(episodes) # 0
      BY <2>1, <2>2, EmptySeq
    <3> QED BY <2>1, <2>2, <3>2, <3>3
  <2>3. CASE /\ ~Continues /\ watch' = FreshWatch(FreshEpisode)
             /\ FreshEpisode.recovery <= 3 /\ Len(episodes) + 1 <= MaxEpisodes
             /\ episodes' = Append(episodes, [FreshEpisode EXCEPT !.processes = @ + 1])
             /\ job' = [job EXCEPT ![driver] = [NoJob EXCEPT !.episode = Len(episodes) + 1]]
    <3>1. FreshEpisode \in Row
      BY FreshIsShared
    <3> HIDE DEF FreshEpisode
    <3>2. [FreshEpisode EXCEPT !.processes = @ + 1] \in Row
      BY <3>1 DEF Row
    <3>3. Len(episodes') = Len(episodes) + 1
      BY <2>1, <2>3, <3>2, AppendProperties
    <3> QED BY <2>1, <2>3, <3>3
  <2> QED BY <2>2, <2>3, PrepareWrites
<1> HIDE DEF n
<1>d. PICK d \in Attempts : d = driver
  BY <1>1
<1>3. job'[d].episode = n /\ \A a \in Attempts : a # d => job'[a] = job[a]
  BY <1>1, <1>2, <1>d DEF NoJob
<1>4. \A a \in Attempts : Open(a) => Ending(a)
  BY <1>0 DEF StartInv, OneJob
<1>5. \A a : Ending(a)' <=> Ending(a)
  BY <1>0 DEF Ending
<1>6. rc.pc # "idle" => rc.job \in Attempts /\ Open(rc.job) /\ rc.job # d
  BY <1>0, <1>d DEF StartInv, OneJob, Typed, RcTyped
<1>7. \A a \in Attempts : Open(a)' <=> Open(a) \/ a = d
  BY <1>0, <1>2, <1>3, <1>d DEF Open
<1>8. task \in {"running", "stopping"}
  BY <1>0 DEF StartInv, OneJob
<1>9. OneJob'
  <2>1. (rc.pc # "idle" => Open(rc.job))'
    <3>1. CASE rc.pc # "idle"
      <4>1. PICK j \in Attempts : j = rc.job
        BY <1>6, <3>1
      <4>2. Open(j)'
        BY <1>6, <1>7, <3>1, <4>1
      <4> QED BY <1>0, <4>1, <4>2 DEF Open
    <3> QED BY <1>0, <3>1
  <2>2. \A a \in Attempts : Open(a)' => Ending(a)' \/ (task' \in {"running", "stopping"} /\ driver' = 0)
    BY <1>0, <1>8
  <2>3. \A a, b \in Attempts : Open(a)' /\ Open(b)' => Ending(a)' \/ Ending(b)' \/ a = b
    BY <1>4, <1>5, <1>7
  <2> QED BY <1>0, <2>1, <2>2, <2>3 DEF OneJob
<1>10. FullInUse'
  <2>1. InLatest(d)'
    BY <1>3, <1>7 DEF InLatest, n
  <2>2. ~Ending(d)'
    BY <1>5, <1>6 DEF Ending
  <2> QED BY <2>1, <2>2 DEF FullInUse
<1>11. SettledHasRoom'
  <2>1. rc.pc # "finalize"
    BY <1>4, <1>6 DEF Ending
  <2> QED BY <1>0, <2>1 DEF SettledHasRoom
<1> QED BY <1>9, <1>10, <1>11 DEF StartInv

(* What a tick that observes job a does next.                               *)
LEMMA ObserveTurns ==
  ASSUME EpisodeInv, Typed, StartInv, NEW a \in Attempts, Observe(a)
  PROVE  /\ UNCHANGED <<taskVars, driver, episodes>> /\ rc.pc = "idle" /\ Open(a)
         /\ \A b \in Attempts : job'[b].episode = job[b].episode
         /\ rc'.pc \notin {"complete", "consume"} /\ (rc'.pc # "idle" => rc'.job = a)
         /\ rc'.pc = "finalize" /\ InLatest(rc'.job) => ~Full
<1>1. PICK says \in Answers(a) : \E fault \in FaultsSeen(says), progressed, bounded \in BOOLEAN :
        /\ ObserveEpisode(job[a].episode, fault, says = "running", progressed, bounded)
        /\ job' = [job EXCEPT ![a].says = says]
        /\ rc' \in Reactions(a, says, bounded)
  BY DEF Observe
<1>2. PICK fault \in FaultsSeen(says), progressed \in BOOLEAN, bounded \in BOOLEAN :
        /\ ObserveEpisode(job[a].episode, fault, says = "running", progressed, bounded)
        /\ job' = [job EXCEPT ![a].says = says]
        /\ rc' \in Reactions(a, says, bounded)
  BY <1>1
<1>3. UNCHANGED <<taskVars, driver>> /\ rc.pc = "idle" /\ Open(a)
  BY DEF Observe
<1>4. task \in {"running", "stopping"}
  BY <1>3 DEF StartInv, OneJob, Ending
<1>5. episodes' = episodes
  BY <1>2, ObserveSees
<1>6. says \in Verdicts \cup {"running"}
  <2>1. job[a] \in JobType
    BY TypeParts DEF Typed
  <2>2. job[a].says \in Verdicts \cup {"running"}
    BY <2>1 DEF JobType
  <2> QED BY <2>2 DEF Answers
<1>7. \/ rc' = Idle
      \/ \E pc \in {"cancel", "verify", "confirm"} : rc' = Goes(a, pc)
      \/ \E act, force : rc' = Ends(a, act, force)
      \/ rc' = Settles(a) /\ says \in Faults /\ ~bounded
  <2> HIDE DEF Goes, Ends, Settles, Idle
  <2> QED BY <1>2, <1>4, <1>6 DEF Reactions, Verdicts, Faults
<1>8. \/ rc'.pc = "idle"
      \/ rc'.job = a /\ rc'.pc \in {"cancel", "verify", "confirm", "terminate"}
      \/ rc'.job = a /\ rc'.pc = "finalize" /\ says \in Faults /\ ~bounded
  <2>1. Idle.pc = "idle"
    BY DEF Idle
  <2>2. \A pc : Goes(a, pc).pc = pc /\ Goes(a, pc).job = a
    BY DEF Goes, Idle
  <2>3. Settles(a).pc = "finalize" /\ Settles(a).job = a
    BY DEF Settles, Goes, Idle
  <2>4. \A act, force : Ends(a, act, force).pc = "terminate" /\ Ends(a, act, force).job = a
    BY DEF Ends, Goes, Idle
  <2> HIDE DEF Goes, Ends, Settles, Idle
  <2> QED BY <1>7, <2>1, <2>2, <2>3, <2>4
<1>9. rc'.pc = "finalize" /\ InLatest(rc'.job) => ~Full
  <2>1. SUFFICES ASSUME says \in Faults, ~bounded, job[a].episode = Len(episodes), Full PROVE FALSE
    BY <1>8 DEF InLatest
  <2>2. fault = says /\ fault # "none"
    BY <2>1 DEF FaultsSeen, Faults
  <2>3. bounded = Bounded(Latest, watch.wall, fault, SameCount(fault, says = "running"))
    BY <1>2, <2>1, ObserveSees
  <2> QED BY <2>1, <2>2, <2>3 DEF Bounded, Full
<1>10. \A b \in Attempts : job'[b].episode = job[b].episode
  BY <1>2, JobRemarked
<1>11. rc'.pc \notin {"complete", "consume"}
  BY <1>8
<1> QED BY <1>3, <1>5, <1>8, <1>9, <1>10, <1>11 DEF taskVars

LEMMA ObserveStart ==
  ASSUME EpisodeInv, Typed, StartInv, NEW a \in Attempts, Observe(a) PROVE StartInv'
BY ObserveTurns, RcTurns DEF taskVars

(* The job at work is the reconciler's.                                     *)
LEMMA AtWorkIsRc ==
  ASSUME StartInv, Typed, rc.pc \notin {"idle", "complete", "consume"}
  PROVE  /\ rc.job \in Attempts /\ Open(rc.job)
         /\ task \in {"running", "stopping"} /\ driver = 0
         /\ \A a \in Attempts : ~Ending(a) /\ (Open(a) => a = rc.job)
         /\ Full => InLatest(rc.job)
<1>1. rc.job \in Attempts /\ Open(rc.job) /\ \A a : ~Ending(a)
  BY DEF StartInv, OneJob, Typed, RcTyped, Ending
<1>2. PICK j \in Attempts : j = rc.job
  BY <1>1
<1>3. task \in {"running", "stopping"} /\ driver = 0
      /\ \A a \in Attempts : Open(a) => a = j
  BY <1>1, <1>2 DEF StartInv, OneJob
<1>4. Full => InLatest(j)
  BY <1>1, <1>3 DEF StartInv, FullInUse, InLatest
<1> QED BY <1>1, <1>2, <1>3, <1>4

LEMMA TerminateStart ==
  ASSUME EpisodeInv, Typed, StartInv, Terminate PROVE StartInv'
<1>1. /\ UNCHANGED <<task, driver, job>> /\ rc.pc = "terminate" /\ rc'.pc = "finalize"
      /\ rc'.job = rc.job
  BY DEF Terminate, taskVars, Typed, RcTyped
<1>2. PICK j \in Attempts : j = rc.job
  BY <1>1, AtWorkIsRc
<1>3. Len(episodes') = Len(episodes) /\ (Full' => Full /\ job[j].episode # Len(episodes))
  BY <1>2, EndUsed DEF Terminate
<1>4. ~Full'
  BY <1>1, <1>2, <1>3, AtWorkIsRc DEF InLatest
<1>5. OneJob'
  BY <1>1 DEF StartInv, OneJob, Open, Ending
<1> QED BY <1>4, <1>5 DEF StartInv, FullInUse, SettledHasRoom

LEMMA FinalizeStart ==
  ASSUME EpisodeInv, Typed, StartInv, Finalize PROVE StartInv'
<1>1. UNCHANGED <<driver, episodes>> /\ rc.pc = "finalize" /\ rc'.pc = "idle"
  BY DEF Finalize, Idle
<1>2. PICK j \in Attempts : j = rc.job
  BY <1>1, AtWorkIsRc
<1>3. /\ \A a : ~Ending(a)
      /\ \A a \in Attempts : Open(a) => a = j
      /\ task \in {"running", "stopping"} /\ driver = 0
  BY <1>1, <1>2, AtWorkIsRc DEF Ending
<1>4. ~Full
  <2>1. Full => InLatest(rc.job)
    BY <1>1, AtWorkIsRc
  <2> QED BY <1>1, <2>1 DEF StartInv, SettledHasRoom
<1>5. ~Full' /\ \A a : ~Ending(a)'
  BY <1>1, <1>4, RowsUsed DEF Ending
<1>6. CASE UNCHANGED <<task, job>>
  BY <1>1, <1>3, <1>5, <1>6 DEF StartInv, OneJob, FullInUse, SettledHasRoom, Open
<1>7. CASE job' = [job EXCEPT ![rc.job] = NoJob]
  <2>1. \A b \in Attempts : b # j => job'[b] = job[b]
    BY <1>2, <1>7, NoJobIsShut
  <2>2. ~Open(j)'
    BY <1>2, <1>7, NoJobIsShut
  <2>3. \A a \in Attempts : ~Open(a)'
    BY <1>3, <2>1, <2>2 DEF Open
  <2>4. OneJob'
    BY <1>1, <1>3, <2>3 DEF OneJob
  <2> QED BY <1>1, <1>5, <2>4 DEF StartInv, FullInUse, SettledHasRoom
<1> QED BY <1>6, <1>7 DEF Finalize

(* A verdict recorded, or a cancellation confirmed: the job ends.           *)
LEMMA VerdictStart ==
  ASSUME EpisodeInv, Typed, StartInv, UNCHANGED <<driver, episodes>>,
         \A a \in Attempts : job'[a].episode = job[a].episode,
         rc.pc \in {"verify", "confirm"}, RcTo("complete")
  PROVE  StartInv'
<1>1. rc'.pc = "complete" /\ rc'.job = rc.job
  BY DEF RcTo, Typed, RcTyped
<1>2. PICK j \in Attempts : j = rc.job
  BY AtWorkIsRc
<1>3. /\ Open(j) /\ driver = 0 /\ \A a \in Attempts : Open(a) => a = j
      /\ Full => InLatest(j)
  BY <1>2, AtWorkIsRc
<1>4. Len(episodes') = Len(episodes) /\ (Full' <=> Full)
  BY RowsUsed
<1>5. \A a \in Attempts : (Open(a)' <=> Open(a)) /\ (InLatest(a)' <=> InLatest(a))
  BY <1>4, PlacesKept
<1>6. Ending(j)'
  BY <1>1, <1>2 DEF Ending
<1>7. OneJob'
  <2>1. Open(rc.job)'
    BY <1>1, <1>2, <1>3, <1>5 DEF Open
  <2> QED BY <1>3, <1>5, <1>6, <2>1 DEF OneJob
<1>8. FullInUse'
  <2>1. Full' => InLatest(rc.job)'
    BY <1>1, <1>2, <1>3, <1>4, <1>5 DEF InLatest, Open
  <2> QED BY <1>1, <2>1 DEF FullInUse
<1>9. SettledHasRoom'
  BY <1>1 DEF SettledHasRoom
<1> QED BY <1>7, <1>8, <1>9 DEF StartInv

LEMMA CompleteStart ==
  ASSUME EpisodeInv, Typed, StartInv, Complete PROVE StartInv'
<1>1. /\ UNCHANGED <<task, driver, job>> /\ rc.pc = "complete" /\ rc'.pc = "consume"
      /\ rc'.job = rc.job
  BY DEF Complete, RcTo, taskVars, Typed, RcTyped
<1>2. \A a : Ending(a)' <=> Ending(a)
  BY <1>1 DEF Ending
<1>3. OneJob'
  BY <1>1, <1>2 DEF StartInv, OneJob, Open
<1>4. Len(episodes') = Len(episodes) /\ (Full' => Full /\ job[rc.job].episode # Len(episodes))
  BY EndUsed DEF Complete
<1>5. \A a : InLatest(a)' <=> InLatest(a)
  BY <1>1, <1>4 DEF InLatest, Open
<1>6. FullInUse'
  <2>1. ~InLatest(rc.job) \/ ~Full'
    BY <1>4 DEF InLatest
  <2>2. Full' => \E a \in Attempts : InLatest(a) /\ ~Ending(a)
    BY <1>1, <1>4, <2>1 DEF StartInv, FullInUse
  <2> QED BY <1>2, <1>5, <2>2 DEF FullInUse
<1>7. SettledHasRoom'
  BY <1>1 DEF SettledHasRoom
<1> QED BY <1>3, <1>6, <1>7 DEF StartInv

LEMMA ConsumeStart ==
  ASSUME EpisodeInv, Typed, StartInv, Consume PROVE StartInv'
<1>1. /\ UNCHANGED <<task, driver, episodes>> /\ rc.pc = "consume" /\ rc'.pc = "idle"
      /\ job' = [job EXCEPT ![rc.job] = NoJob]
  BY DEF Consume, taskVars, Idle
<1>2. PICK j \in Attempts : j = rc.job
  BY <1>1 DEF Typed, RcTyped
<1>3. ~Open(j)' /\ ~InLatest(j)' /\ \A b \in Attempts : b # j => job'[b] = job[b]
  BY <1>1, <1>2, NoJobIsShut
<1>4. \A b \in Attempts : (Ending(b) <=> b = j) /\ ~Ending(b)'
  BY <1>1, <1>2 DEF Ending
<1>5. Len(episodes') = Len(episodes) /\ (Full' <=> Full)
  BY <1>1, RowsUsed
<1>6. \A b \in Attempts : b # j => (Open(b)' <=> Open(b)) /\ (InLatest(b)' <=> InLatest(b))
  BY <1>3, <1>5 DEF Open, InLatest
<1>7. OneJob'
  BY <1>1, <1>3, <1>4, <1>6 DEF StartInv, OneJob
<1>8. FullInUse'
  BY <1>1, <1>4, <1>5, <1>6 DEF StartInv, FullInUse
<1> QED BY <1>1, <1>7, <1>8 DEF StartInv, SettledHasRoom

LEMMA StartStep ==
  ASSUME ~CrashInFinish, EpisodeInv, Typed, StartInv, [Next]_vars PROVE StartInv'
<1>0. /\ driver # 0 => task \in {"running", "stopping"}
      /\ \A a \in Attempts :
           Open(a) => Ending(a) \/ (task \in {"running", "stopping"} /\ driver = 0)
      /\ rc.pc # "idle" => rc.job \in Attempts /\ Open(rc.job)
  BY DEF StartInv, OneJob, Typed, RcTyped
<1>1. CASE Claim \/ HardDeadline \/ Refused \/ Recover \/ Operate \/ UNCHANGED vars
  <2>1. UNCHANGED <<job, rc, episodes>>
    BY <1>1 DEF Claim, HardDeadline, Refused, Recover, Operate, Cancel, ResumeSuspended,
                OperatorResume, ReplaceSpec, vars, taskVars
  <2>2. \/ UNCHANGED <<task, driver>>
        \/ /\ \A a \in Attempts :
                Open(a) => Ending(a) \/ (task' \in {"running", "stopping"} /\ driver' = 0)
           /\ driver' # 0 => task' \in {"running", "stopping"}
    <3>1. CASE Claim
      BY <1>0, <3>1 DEF Claim
    <3>2. CASE HardDeadline \/ Refused \/ Recover
      BY <1>0, <3>2 DEF HardDeadline, Refused, Recover, taskVars
    <3>3. CASE Operate
      BY <1>0, <3>3 DEF Operate, Cancel, ResumeSuspended, OperatorResume, ReplaceSpec
    <3>4. CASE UNCHANGED vars
      BY <3>4 DEF vars, taskVars
    <3> QED BY <1>1, <3>1, <3>2, <3>3, <3>4
  <2> QED BY <2>1, <2>2, StartStays
<1>2. CASE Elapse
  BY <1>2, StartStays DEF Elapse, taskVars
<1>3. CASE Prepare
  BY <1>3, PrepareStart
<1>4. ASSUME NEW a \in Attempts, Observe(a) PROVE StartInv'
  BY <1>4, ObserveStart
<1>5. ASSUME NEW a \in Attempts, GiveUp(a) \/ Suspend(a) PROVE StartInv'
  <2>1. /\ UNCHANGED <<task, driver, episodes, job>> /\ rc.pc = "idle" /\ Open(a)
        /\ \E act, force : rc' = Ends(a, act, force)
    BY <1>5 DEF GiveUp, Suspend, taskVars
  <2>2. rc'.pc = "terminate" /\ rc'.job = a
    BY <2>1 DEF Ends, Goes, Idle
  <2> QED BY <2>1, <2>2, RcTurns
<1>6. CASE CancelReaches \/ CancelFails \/ EvidenceRefused \/ Crash
  <2>1. /\ UNCHANGED <<task, episodes, job>> /\ rc.pc \notin {"complete", "consume"}
        /\ rc'.pc \in {"terminate", "idle"} /\ (rc'.pc = "idle" \/ (rc.pc # "idle" /\ rc'.job = rc.job))
    <3>1. \A act : /\ [rc EXCEPT !.pc = "terminate", !.act = act].pc = "terminate"
                   /\ [rc EXCEPT !.pc = "terminate", !.act = act].job = rc.job
      BY DEF Typed, RcTyped
    <3>2. Idle.pc = "idle"
      BY DEF Idle
    <3>3. CASE CancelReaches
      BY <3>1, <3>3 DEF CancelReaches, taskVars
    <3>4. CASE CancelFails
      BY <3>2, <3>4 DEF CancelFails, taskVars
    <3>5. CASE EvidenceRefused
      BY <3>1, <3>5 DEF EvidenceRefused, taskVars
    <3>6. CASE Crash
      BY <3>2, <3>6 DEF Crash, taskVars
    <3> QED BY <1>6, <3>3, <3>4, <3>5, <3>6
  <2>2. CASE UNCHANGED driver
    BY <1>0, <2>1, <2>2, RcTurns
  <2>3. CASE ~UNCHANGED driver
    <3>1. driver' = 0 /\ rc'.pc = "idle" /\ rc.pc \notin {"complete", "consume"}
      BY <1>6, <2>1, <2>3 DEF CancelReaches, CancelFails, EvidenceRefused, Crash, Idle
    <3>2. \A a : ~Ending(a) /\ ~Ending(a)'
      BY <3>1 DEF Ending
    <3>3. \A a : (Open(a)' <=> Open(a)) /\ (InLatest(a)' <=> InLatest(a)) /\ (Full' <=> Full)
      BY <2>1, RowsUsed DEF Open, InLatest
    <3>4. OneJob'
      BY <1>0, <2>1, <3>1, <3>2, <3>3 DEF StartInv, OneJob
    <3> QED BY <2>1, <3>1, <3>2, <3>3, <3>4 DEF StartInv, FullInUse, SettledHasRoom
  <2> QED BY <2>2, <2>3
<1>7. CASE VerifyFails
  <2>1. PICK bounded \in BOOLEAN :
          /\ ObserveEpisode(job[rc.job].episode, "transient_transport", FALSE, FALSE, bounded)
          /\ rc' = IF bounded THEN Ends(rc.job, "bounded", FALSE) ELSE Idle
    BY <1>7 DEF VerifyFails
  <2>2. UNCHANGED <<task, driver, job, episodes>> /\ rc.pc = "verify"
    BY <1>7, <2>1, ObserveSees DEF VerifyFails, taskVars
  <2>3. rc'.pc = "idle" \/ (rc'.pc = "terminate" /\ rc'.job = rc.job)
    BY <2>1 DEF Ends, Goes, Idle
  <2> QED BY <1>0, <2>2, <2>3, RcTurns
<1>8. CASE Terminate
  BY <1>8, TerminateStart
<1>9. CASE Finalize
  BY <1>9, FinalizeStart
<1>10. CASE Finish
  <2>1. UNCHANGED <<driver, episodes>> /\ rc.pc = "verify" /\ RcTo("complete")
    BY <1>10 DEF Finish
  <2>2. PICK j \in Attempts : j = rc.job
    BY <1>0, <2>1
  <2>3. job' = job \/ job' = [job EXCEPT ![j].done = TRUE]
    BY <1>10, <2>2 DEF Finish
  <2>4. \A a \in Attempts : job'[a].episode = job[a].episode
    BY <2>3, JobRemarked
  <2> QED BY <2>1, <2>4, VerdictStart
<1>11. CASE ConfirmCancel
  <2>1. UNCHANGED <<driver, episodes, job>> /\ rc.pc = "confirm"
    BY <1>11 DEF ConfirmCancel
  <2>2. CASE RcTo("complete")
    BY <2>1, <2>2, VerdictStart
  <2>3. CASE rc' = Idle /\ UNCHANGED task
    <3>1. rc'.pc = "idle"
      BY <2>3 DEF Idle
    <3> QED BY <2>1, <2>3, <3>1, RcTurns
  <2> QED BY <1>11, <2>2, <2>3 DEF ConfirmCancel
<1>12. CASE Complete
  BY <1>12, CompleteStart
<1>13. CASE Consume
  BY <1>13, ConsumeStart
<1> QED BY <1>1, <1>2, <1>3, <1>4, <1>5, <1>6, <1>7, <1>8, <1>9, <1>10, <1>11, <1>12, <1>13
        DEF Next, Drive, Settle

(* If the control plane does not die between recording a verdict and        *)
(* consuming its job, then a task that recovery, a verdict or an operator   *)
(* made ready finds room for a process: prepare opens a fresh episode, or   *)
(* the one that goes on has not used its last process.  Only the moment     *)
(* between a verdict and the completion of its episode is excepted.         *)
THEOREM ReadyTaskMayStart ==
  ASSUME ~CrashInFinish PROVE Spec => []ReadyMayStart
<1>1. Init => StartInv
  <2> SUFFICES ASSUME Init PROVE StartInv
    OBVIOUS
  <2>1. rc.pc = "idle" /\ driver = 0 /\ ~Full /\ \A a \in Attempts : ~Open(a)
    BY DEF Init, Idle, Full, Continues, Open, NoJob
  <2> QED BY <2>1 DEF StartInv, OneJob, FullInUse, SettledHasRoom
<1>2. EpisodeInv /\ Typed /\ StartInv => ReadyMayStart
  <2> SUFFICES ASSUME EpisodeInv, Typed, StartInv, task = "ready", rc.pc # "complete", Continues
               PROVE  Latest.processes < MaxProcesses
    BY DEF ReadyMayStart
  <2>1. ~Full
    <3>1. \A a \in Attempts : Open(a) => Ending(a)
      BY DEF StartInv, OneJob
    <3> QED BY <3>1 DEF StartInv, FullInUse, InLatest
  <2>2. Latest.processes \in Nat /\ MaxProcesses \in Nat
    BY LatestIsRow, Bounds DEF Continues, EpisodeInv, Row
  <2> QED BY <2>1, <2>2 DEF Full
<1>3. EpisodeInv /\ Typed /\ StartInv /\ [Next]_vars => StartInv'
  BY StartStep
<1> QED BY <1>1, <1>2, <1>3, TypedHolds, PTL DEF Spec

-----------------------------------------------------------------------------
(* What a specification costs.                                              *)
(*                                                                          *)
(* Between two completed episodes those of a specification climb one        *)
(* ladder, so its place on the ladder and the number of episodes completed  *)
(* before it tell an episode from all others of its specification.  And an  *)
(* episode is completed once for an attempt (Paid): the attempt that goes   *)
(* on has completed none, and the reconciler completes none after it has    *)
(* forgotten why.                                                           *)

Completed(s) == {k \in EpisodesOf(s) : episodes[k].status = "completed"}
Before(i)    == {k \in Completed(episodes[i].spec) : k < i}

InOrder ==
  /\ \A i, k \in DOMAIN episodes : i < k => episodes[i].spec <= episodes[k].spec
  /\ \A i \in DOMAIN episodes : episodes[i].spec <= spec

Climbs ==
  \A i, k \in DOMAIN episodes :
    i < k /\ episodes[i].spec = episodes[k].spec
      => \/ episodes[i].recovery < episodes[k].recovery
         \/ \E j \in i..(k - 1) : episodes[j].status = "completed"

Few   == \A i \in DOMAIN episodes : Cardinality(Before(i)) < MaxAttempts
Rungs == InOrder /\ Climbs /\ Few

Pending == rc.pc = "complete" /\ job[rc.job].episode \in EpisodesOf(spec)
Working == driver # 0 \/ checkpoint # 0 \/ \E a \in Attempts : Open(a) /\ ~Ending(a)

Paid == Cardinality(Completed(spec)) + (IF Pending THEN 1 ELSE 0) + (IF Working THEN 1 ELSE 0)
          <= used

Waits  == checkpoint # 0 => task \notin {"running", "stopping"}
Placed == \A a \in Attempts : job[a].episode <= Len(episodes)

LadderInv == Rungs /\ Paid /\ Waits /\ Placed

LEMMA CompletedFinite ==
  ASSUME EpisodeInv, NEW s
  PROVE  /\ IsFiniteSet(Completed(s)) /\ Cardinality(Completed(s)) \in Nat
         /\ Completed(s) \subseteq 1..Len(episodes)
         /\ DOMAIN episodes = 1..Len(episodes) /\ Len(episodes) \in Nat
         /\ \A i \in DOMAIN episodes : episodes[i] \in Row
<1>1. /\ DOMAIN episodes = 1..Len(episodes) /\ Len(episodes) \in Nat
      /\ \A i \in DOMAIN episodes : episodes[i] \in Row
  BY LenProperties, ElementOfSeq DEF EpisodeInv, Shaped
<1>2. Completed(s) \subseteq 1..Len(episodes)
  BY <1>1 DEF Completed, EpisodesOf
<1>3. IsFiniteSet(1..Len(episodes))
  BY <1>1, FS_Interval
<1> QED BY <1>1, <1>2, <1>3, FS_Subset, FS_CardinalityType

(* Rungs is about the specification, the place on the ladder and the status *)
(* of the rows.                                                             *)
LEMMA RungsKept ==
  ASSUME EpisodeInv, Rungs, UNCHANGED spec, DOMAIN episodes' = DOMAIN episodes,
         \A i \in DOMAIN episodes : /\ episodes'[i].spec = episodes[i].spec
                                    /\ episodes'[i].status = episodes[i].status
                                    /\ episodes'[i].recovery = episodes[i].recovery
  PROVE  /\ Rungs'
         /\ \A s : EpisodesOf(s)' = EpisodesOf(s) /\ Completed(s)' = Completed(s)
<1>1. \A s : EpisodesOf(s)' = EpisodesOf(s) /\ Completed(s)' = Completed(s)
  BY DEF EpisodesOf, Completed
<1>2. InOrder'
  BY DEF Rungs, InOrder
<1>3. DOMAIN episodes = 1..Len(episodes) /\ Len(episodes) \in Nat
  BY CompletedFinite
<1>4. Climbs'
  <2>1. \A i, k \in DOMAIN episodes : \A j \in i..(k - 1) : j \in DOMAIN episodes
    BY <1>3
  <2> QED BY <2>1 DEF Rungs, Climbs
<1>5. Few'
  <2>1. \A i \in DOMAIN episodes : Before(i)' = Before(i)
    BY <1>1 DEF Before
  <2> QED BY <2>1 DEF Rungs, Few
<1> QED BY <1>1, <1>2, <1>4, <1>5 DEF Rungs

LEMMA TimeKeepsRungs ==
  ASSUME EpisodeInv, Rungs, UNCHANGED spec, Elapse \/ UNCHANGED episodes
  PROVE  /\ Rungs' /\ Len(episodes') = Len(episodes)
         /\ \A s : EpisodesOf(s)' = EpisodesOf(s) /\ Completed(s)' = Completed(s)
<1>1. Len(episodes') = Len(episodes)
  BY RowsUsed
<1>2. DOMAIN episodes = 1..Len(episodes) /\ \A i \in DOMAIN episodes : episodes[i] \in Row
  BY CompletedFinite
<1>3. CASE UNCHANGED episodes
  BY <1>1, <1>3, RungsKept
<1>4. CASE Elapse
  <2> DEFINE e(i) == [episodes[i] EXCEPT !.deadline = NotNegative(@ - 1)]
  <2>1. episodes' = [i \in DOMAIN episodes |-> e(i)]
    BY <1>4 DEF Elapse
  <2>2. \A i \in DOMAIN episodes :
          /\ e(i).spec = episodes[i].spec /\ e(i).status = episodes[i].status
          /\ e(i).recovery = episodes[i].recovery
    BY <1>2 DEF Row
  <2> HIDE DEF e
  <2> QED BY <1>1, <2>1, <2>2, RungsKept
<1> QED BY <1>3, <1>4

(* Only the latest episode can end.                                         *)
LEMMA EndRungs ==
  ASSUME EpisodeInv, Rungs, UNCHANGED spec, NEW i,
         NEW how \in {"terminated", "completed", "circuit_open"}, EndEpisode(i, how)
  PROVE  /\ Rungs' /\ Len(episodes') = Len(episodes)
         /\ \A s : /\ EpisodesOf(s)' = EpisodesOf(s)
                   /\ how # "completed" => Completed(s)' = Completed(s)
                   /\ i \notin EpisodesOf(s) => Completed(s)' = Completed(s)
                   /\ Completed(s)' \subseteq Completed(s) \cup {i}
                   /\ Completed(s) \subseteq Completed(s)'
<1> DEFINE n == Len(episodes)
           e == [episodes[i] EXCEPT !.status = IF @ = "active" THEN how ELSE @]
<1>0. /\ DOMAIN episodes = 1..n /\ n \in Nat /\ episodes \in Seq(Row)
      /\ \A k \in DOMAIN episodes : episodes[k] \in Row
  BY CompletedFinite DEF EpisodeInv, Shaped
<1>1. episodes' = [episodes EXCEPT ![i] = e]
  BY DEF EndEpisode
<1>2. ASSUME i \in DOMAIN episodes
      PROVE  /\ e \in Row /\ e.spec = episodes[i].spec /\ e.recovery = episodes[i].recovery
             /\ e.status = IF episodes[i].status = "active" THEN how ELSE episodes[i].status
  <2>1. episodes[i] \in Row
    BY <1>0, <1>2
  <2> QED BY <2>1 DEF Row
<1> HIDE DEF e
<1>3. /\ episodes' \in Seq(Row) /\ Len(episodes') = n /\ DOMAIN episodes' = DOMAIN episodes
      /\ \A k \in DOMAIN episodes : episodes'[k] = IF k = i THEN e ELSE episodes[k]
  BY <1>0, <1>1, <1>2, OneRow
<1>4. \A k \in DOMAIN episodes :
        /\ episodes'[k].spec = episodes[k].spec /\ episodes'[k].recovery = episodes[k].recovery
        /\ k # i \/ episodes[k].status # "active" => episodes'[k].status = episodes[k].status
        /\ k = i /\ episodes[k].status = "active" => episodes'[k].status = how
  BY <1>2, <1>3
<1>5. CASE i \notin DOMAIN episodes \/ episodes[i].status # "active"
  <2>1. \A k \in DOMAIN episodes : episodes'[k].status = episodes[k].status
    BY <1>4, <1>5
  <2> QED BY <1>3, <1>4, <2>1, RungsKept
<1>6. CASE i \in DOMAIN episodes /\ episodes[i].status = "active"
  <2>1. i = n
    BY <1>6 DEF EpisodeInv, OneActive
  <2>2. \A k \in DOMAIN episodes :
          /\ k # n => episodes'[k].status = episodes[k].status
          /\ k = n => episodes'[k].status = how /\ episodes[k].status = "active"
    BY <1>4, <1>6, <2>1
  <2>3. \A s : /\ EpisodesOf(s)' = EpisodesOf(s)
               /\ how # "completed" => Completed(s)' = Completed(s)
               /\ i \notin EpisodesOf(s) => Completed(s)' = Completed(s)
               /\ Completed(s)' \subseteq Completed(s) \cup {i}
               /\ Completed(s) \subseteq Completed(s)'
    BY <1>3, <1>4, <2>1, <2>2 DEF EpisodesOf, Completed
  <2>4. InOrder'
    BY <1>3, <1>4 DEF Rungs, InOrder
  <2>5. Climbs'
    <3>1. ASSUME NEW j \in DOMAIN episodes, episodes[j].status = "completed"
          PROVE  episodes'[j].status = "completed"
      BY <2>2, <3>1
    <3>2. \A k, m \in DOMAIN episodes : \A j \in k..(m - 1) : j \in DOMAIN episodes
      BY <1>0
    <3> QED BY <1>3, <1>4, <3>1, <3>2 DEF Rungs, Climbs
  <2>6. Few'
    <3>1. ASSUME NEW k \in DOMAIN episodes PROVE Before(k)' = Before(k)
      <4>1. \A j \in DOMAIN episodes : j < k => j # n
        BY <1>0
      <4> QED BY <1>3, <1>4, <2>2, <4>1 DEF Before, Completed, EpisodesOf
    <3> QED BY <1>3, <3>1 DEF Rungs, Few
  <2> QED BY <1>3, <2>3, <2>4, <2>5, <2>6 DEF Rungs
<1> QED BY <1>5, <1>6

-----------------------------------------------------------------------------
LEMMA PaidKept ==
  ASSUME EpisodeInv, Typed, Paid, UNCHANGED <<spec, used>>, Completed(spec)' = Completed(spec),
         Pending' => Pending, Working' => Working
  PROVE  Paid'
<1> DEFINE c == Cardinality(Completed(spec))
<1>1. c \in Nat /\ used \in Nat /\ Cardinality(Completed(spec)') = c
  BY CompletedFinite, TypeParts DEF Typed
<1>2. /\ c + (IF Pending THEN 1 ELSE 0) + (IF Working THEN 1 ELSE 0) <= used
      /\ Paid' <=> c + (IF Pending' THEN 1 ELSE 0) + (IF Working' THEN 1 ELSE 0) <= used
  BY <1>1 DEF Paid
<1> HIDE DEF c
<1> QED BY <1>1, <1>2

(* Steps that open, settle and complete nothing.                            *)
LEMMA QuietLadder ==
  ASSUME EpisodeInv, Typed, LadderInv, UNCHANGED <<spec, used, checkpoint>>,
         driver' \in {driver, 0}, Elapse \/ UNCHANGED episodes,
         \A a \in Attempts : job'[a].episode = job[a].episode,
         UNCHANGED rc \/ (rc.pc \notin {"complete", "consume"} /\ rc'.pc \notin {"complete", "consume"}),
         task' \in {"running", "stopping"} => task \in {"running", "stopping"}
  PROVE  LadderInv'
<1>1. /\ Rungs' /\ Len(episodes') = Len(episodes)
      /\ \A s : EpisodesOf(s)' = EpisodesOf(s) /\ Completed(s)' = Completed(s)
  BY TimeKeepsRungs DEF LadderInv
<1>2. \A a \in Attempts : (Open(a)' <=> Open(a)) /\ (Ending(a)' <=> Ending(a))
  BY DEF Open, Ending
<1>3. Working' => Working
  BY <1>2 DEF Working
<1>4. Pending' => Pending
  <2>1. SUFFICES ASSUME Pending' PROVE Pending
    OBVIOUS
  <2>2. UNCHANGED rc /\ rc.pc = "complete"
    BY <2>1 DEF Pending
  <2>3. PICK j \in Attempts : j = rc.job
    BY <2>2 DEF Typed, RcTyped
  <2>4. job'[rc'.job].episode = job[rc.job].episode
    BY <2>2, <2>3
  <2>5. job'[rc'.job].episode \in EpisodesOf(spec)'
    BY <2>1 DEF Pending
  <2>6. EpisodesOf(spec)' = EpisodesOf(spec)
    BY ZenonT(60), <1>1 DEF EpisodesOf
  <2> QED BY <2>2, <2>4, <2>5, <2>6 DEF Pending
<1>5. Completed(spec)' = Completed(spec)
  BY <1>1 DEF Completed, EpisodesOf
<1>6. Paid'
  BY <1>3, <1>4, <1>5, PaidKept DEF LadderInv
<1>7. Waits'
  BY DEF LadderInv, Waits
<1>8. Placed'
  BY <1>1 DEF LadderInv, Placed
<1> QED BY <1>1, <1>6, <1>7, <1>8 DEF LadderInv

LEMMA ClaimLadder ==
  ASSUME EpisodeInv, Typed, LadderInv, Claim PROVE LadderInv'
<1>1. UNCHANGED <<spec, episodes, job, rc>> /\ checkpoint' = 0
  BY DEF Claim
<1>2. Rungs' /\ Placed' /\ Waits' /\ Completed(spec)' = Completed(spec)
  BY <1>1, TimeKeepsRungs DEF LadderInv, Placed, Waits, Completed, EpisodesOf
<1>3. Pending' <=> Pending
  BY <1>1 DEF Pending, EpisodesOf
<1>4. CASE checkpoint # 0 /\ used' = used
  <2>1. Working
    BY <1>4 DEF Working
  <2> QED BY <1>1, <1>2, <1>3, <1>4, <2>1, PaidKept DEF LadderInv
<1>5. CASE used' = used + 1
  <2> DEFINE c == Cardinality(Completed(spec))
  <2>1. c \in Nat /\ used \in Nat /\ Cardinality(Completed(spec)') = c
    BY <1>2, CompletedFinite, TypeParts DEF Typed
  <2>2. /\ c + (IF Pending THEN 1 ELSE 0) + (IF Working THEN 1 ELSE 0) <= used
        /\ Paid' <=> c + (IF Pending THEN 1 ELSE 0) + (IF Working' THEN 1 ELSE 0) <= used + 1
    BY <1>3, <1>5, <2>1 DEF LadderInv, Paid
  <2> HIDE DEF c
  <2>3. Paid'
    BY <2>1, <2>2
  <2> QED BY <1>2, <2>3 DEF LadderInv
<1> QED BY <1>4, <1>5 DEF Claim

(* A new specification has no episode yet.                                  *)
LEMMA ReplaceLadder ==
  ASSUME EpisodeInv, Typed, StartInv, LadderInv, ReplaceSpec PROVE LadderInv'
<1>1. /\ UNCHANGED <<episodes, job, rc, driver>> /\ checkpoint' = 0 /\ used' = 0
      /\ spec' = spec + 1 /\ task \notin {"running", "stopping"}
  BY DEF ReplaceSpec
<1>2. spec \in Nat /\ \A i \in DOMAIN episodes : episodes[i].spec \in Nat /\ episodes[i].spec <= spec
  <2>1. \A i \in DOMAIN episodes : episodes[i].spec \in 1..MaxSpec
    BY CompletedFinite DEF Row
  <2>2. spec \in 1..MaxSpec
    BY TypeParts DEF Typed
  <2> QED BY <2>1, <2>2, Bounds DEF LadderInv, Rungs, InOrder
<1>3. Rungs'
  <2>1. \A i \in DOMAIN episodes : Before(i)' = Before(i)
    BY <1>1 DEF Before, Completed, EpisodesOf
  <2>2. Climbs' /\ Few'
    BY <1>1, <2>1 DEF LadderInv, Rungs, Climbs, Few
  <2>3. InOrder'
    BY <1>1, <1>2 DEF LadderInv, Rungs, InOrder
  <2> QED BY <2>2, <2>3 DEF Rungs
<1>4. EpisodesOf(spec)' = {} /\ Completed(spec)' = {}
  <2>1. \A i \in DOMAIN episodes : episodes[i].spec # spec + 1
    BY <1>2
  <2> QED BY <1>1, <2>1 DEF EpisodesOf, Completed
<1>5. ~Pending'
  BY <1>4 DEF Pending
<1>6. ~Working'
  <2>1. driver = 0 /\ \A a \in Attempts : Open(a) => Ending(a)
    BY <1>1 DEF StartInv, OneJob
  <2> QED BY <1>1, <2>1 DEF Working, Open, Ending
<1>7. Cardinality({}) = 0
  BY FS_EmptySet
<1>8. Paid'
  <2>1. Cardinality(Completed(spec)') = 0
    BY <1>4, <1>7
  <2> QED BY <1>1, <1>5, <1>6, <2>1 DEF Paid
<1>9. Waits' /\ Placed'
  BY <1>1 DEF LadderInv, Waits, Placed
<1> QED BY <1>3, <1>8, <1>9 DEF LadderInv

(* A fresh episode continues the ladder, or begins one that is paid for.    *)
LEMMA PrepareLadder ==
  ASSUME EpisodeInv, Typed, StartInv, LadderInv, Prepare PROVE LadderInv'
<1> DEFINE n == Len(episodes)
<1>0. /\ UNCHANGED <<spec, used, checkpoint, task, rc>> /\ driver' = 0 /\ driver # 0
      /\ ~Open(driver) /\ ~CircuitOpen
  BY DEF Prepare, taskVars
<1>1. /\ episodes \in Seq(Row) /\ n \in Nat /\ DOMAIN episodes = 1..n
      /\ \A i \in DOMAIN episodes : episodes[i] \in Row
      /\ spec \in 1..MaxSpec /\ used \in 0..MaxAttempts /\ job \in [Attempts -> JobType]
  BY CompletedFinite, TypeParts DEF EpisodeInv, Shaped, Typed
<1>2. driver \in Attempts
  BY PrepareTyped DEF Typed
<1>3. PICK d \in Attempts : d = driver
  BY <1>2
<1>4. Working /\ Waits'
  BY <1>0 DEF Working, LadderInv, Waits
<1>5. ASSUME NEW m \in Nat, m >= n, Len(episodes') = m,
             job' = [job EXCEPT ![driver] = [NoJob EXCEPT !.episode = m]]
      PROVE  Placed' /\ \A b \in Attempts : b # d => job'[b] = job[b]
  <2>1. job'[d].episode = m /\ \A b \in Attempts : b # d => job'[b] = job[b]
    BY <1>1, <1>3, <1>5 DEF NoJob
  <2>2. \A b \in Attempts : job[b].episode \in Nat /\ job[b].episode <= n
    <3>1. \A b \in Attempts : job[b] \in JobType
      BY <1>1
    <3> QED BY <3>1, Bounds DEF JobType, LadderInv, Placed
  <2>3. \A b \in Attempts : job'[b].episode <= m
    BY <1>1, <1>5, <2>1, <2>2
  <2> QED BY <1>5, <2>1, <2>3 DEF Placed
<1>6. ASSUME \A b \in Attempts : b # d => job'[b] = job[b],
             EpisodesOf(spec)' \subseteq EpisodesOf(spec) \cup {n + 1}
      PROVE  Pending' => Pending
  <2>1. SUFFICES ASSUME Pending' PROVE Pending
    OBVIOUS
  <2>2. rc.pc = "complete" /\ job'[rc.job].episode \in EpisodesOf(spec)'
    BY <1>0, <2>1 DEF Pending
  <2>3. PICK j \in Attempts : j = rc.job
    BY <2>2 DEF Typed, RcTyped
  <2>4. Open(j) /\ j # d
    BY <1>0, <1>3, <2>2, <2>3 DEF StartInv, OneJob
  <2>5. job'[j] = job[j] /\ job[j] \in JobType
    BY <1>1, <1>6, <2>4
  <2>6. job[j].episode \in Nat /\ job[j].episode <= n
    BY <2>5, Bounds DEF JobType, LadderInv, Placed
  <2>7. job[j].episode # n + 1
    BY <1>1, <2>6
  <2> QED BY <1>6, <2>2, <2>3, <2>5, <2>7 DEF Pending
<1>7. CASE /\ Continues /\ UNCHANGED watch /\ episodes # <<>>
           /\ Latest.processes < MaxProcesses /\ Len(episodes) <= MaxEpisodes
           /\ episodes' = [episodes EXCEPT ![Len(episodes)] = [Latest EXCEPT !.processes = @ + 1]]
           /\ job' = [job EXCEPT ![driver] = [NoJob EXCEPT !.episode = Len(episodes)]]
  <2> DEFINE e == [Latest EXCEPT !.processes = @ + 1]
  <2>1. n \in DOMAIN episodes /\ Latest \in Row /\ Latest = episodes[n]
    BY <1>7, LatestIsRow DEF EpisodeInv, Latest
  <2>2. /\ e \in Row /\ e.spec = Latest.spec /\ e.status = Latest.status
        /\ e.recovery = Latest.recovery
    BY <2>1 DEF Row
  <2>3. episodes' = [episodes EXCEPT ![n] = e]
    BY <1>7
  <2> HIDE DEF e
  <2>4. /\ Len(episodes') = n /\ DOMAIN episodes' = DOMAIN episodes
        /\ \A k \in DOMAIN episodes : episodes'[k] = IF k = n THEN e ELSE episodes[k]
    BY <1>1, <2>2, <2>3, OneRow
  <2>5. \A k \in DOMAIN episodes : /\ episodes'[k].spec = episodes[k].spec
                                   /\ episodes'[k].status = episodes[k].status
                                   /\ episodes'[k].recovery = episodes[k].recovery
    BY <2>1, <2>2, <2>4
  <2>6. Rungs' /\ \A s : EpisodesOf(s)' = EpisodesOf(s) /\ Completed(s)' = Completed(s)
    BY <1>0, <2>4, <2>5, RungsKept DEF LadderInv
  <2>7. EpisodesOf(spec)' = EpisodesOf(spec) /\ Completed(spec)' = Completed(spec)
    BY <1>0, <2>6 DEF Completed, EpisodesOf
  <2>8. Placed' /\ \A b \in Attempts : b # d => job'[b] = job[b]
    <3>1. n \in Nat /\ n >= n /\ Len(episodes') = n
      BY <1>1, <2>4
    <3>2. job' = [job EXCEPT ![driver] = [NoJob EXCEPT !.episode = n]]
      BY <1>7
    <3> HIDE DEF n
    <3> QED BY <1>5, <3>1, <3>2
  <2>9. Paid'
    BY <1>0, <1>4, <1>6, <2>7, <2>8, PaidKept DEF LadderInv
  <2> QED BY <1>4, <2>6, <2>8, <2>9 DEF LadderInv
<1>8. CASE /\ ~Continues /\ watch' = FreshWatch(FreshEpisode)
           /\ FreshEpisode.recovery <= 3 /\ Len(episodes) + 1 <= MaxEpisodes
           /\ episodes' = Append(episodes, [FreshEpisode EXCEPT !.processes = @ + 1])
           /\ job' = [job EXCEPT ![driver] = [NoJob EXCEPT !.episode = Len(episodes) + 1]]
  <2> DEFINE e == [FreshEpisode EXCEPT !.processes = @ + 1]
  <2>1. FreshEpisode \in Row
    BY FreshIsShared
  <2>2. /\ e \in Row /\ e.spec = spec /\ e.status = "active" /\ e.recovery = NextRecovery
    <3>1. e.spec = spec /\ e.status = "active" /\ e.recovery = NextRecovery
      BY DEF FreshEpisode
    <3> HIDE DEF FreshEpisode
    <3> QED BY <2>1, <3>1 DEF Row
  <2>3. episodes' = Append(episodes, e)
    BY <1>8
  <2> HIDE DEF e
  <2>4. /\ Len(episodes') = n + 1 /\ episodes'[n + 1] = e /\ DOMAIN episodes' = 1..(n + 1)
        /\ \A k \in 1..n : episodes'[k] = episodes[k]
    BY <1>1, <2>2, <2>3, AppendProperties, LenProperties
  <2>5. \A k \in 1..(n + 1) : k \in 1..n \/ k = n + 1
    BY <1>1
  <2>6. \A s : Completed(s)' = Completed(s)
    <3>1. n + 1 \notin 1..n
      BY <1>1
    <3> QED BY <1>1, <2>2, <2>4, <2>5, <3>1 DEF Completed, EpisodesOf
  <2>7. Completed(spec)' = Completed(spec) /\ EpisodesOf(spec)' \subseteq EpisodesOf(spec) \cup {n + 1}
    <3>1. Completed(spec)' = Completed(spec)
      BY <1>0, <2>6 DEF Completed, EpisodesOf
    <3> QED BY <1>0, <1>1, <2>4, <2>5, <3>1 DEF EpisodesOf
  <2>8. Placed' /\ \A b \in Attempts : b # d => job'[b] = job[b]
    <3>1. n + 1 \in Nat /\ n + 1 >= n
      BY <1>1
    <3> QED BY <1>5, <1>8, <2>4, <3>1
  <2>9. Paid'
    BY <1>0, <1>4, <1>6, <2>7, <2>8, PaidKept DEF LadderInv
  <2>10. \A i \in 1..n : episodes[i].spec \in Nat /\ episodes[i].spec <= spec /\ spec \in Nat
    <3>1. \A i \in 1..n : episodes[i].spec \in 1..MaxSpec
      BY <1>1 DEF Row
    <3> QED BY <1>1, <3>1, Bounds DEF LadderInv, Rungs, InOrder
  <2>11. InOrder'
    <3>1. \A i, k \in 1..(n + 1) : i < k => i \in 1..n
      BY <1>1
    <3>2. \A i \in 1..n : episodes'[i].spec = episodes[i].spec
      BY <2>4
    <3>3. episodes'[n + 1].spec = spec /\ spec <= spec
      BY <1>1, <2>2, <2>4
    <3> QED BY <1>0, <1>1, <2>4, <2>5, <2>10, <3>1, <3>2, <3>3 DEF LadderInv, Rungs, InOrder
  <2>12. Few'
    <3>1. \A i \in 1..n : Before(i)' = Before(i)
      BY <2>4, <2>6 DEF Before
    <3>2. PICK m \in Nat : m = n + 1
      BY <1>1
    <3>3. Before(m)' = Completed(spec)
      <4>1. Completed(spec) \subseteq 1..n /\ \A k \in 1..n : k < m
        BY <1>1, <3>2, CompletedFinite
      <4>2. episodes'[m].spec = spec /\ spec' = spec
        BY <1>0, <2>2, <2>4, <3>2
      <4>3. \A k : k \in Before(m)' <=> /\ k \in DOMAIN episodes'
                                         /\ episodes'[k].spec = episodes'[m].spec
                                         /\ episodes'[k].status = "completed"
                                         /\ k < m
        BY DEF Before, Completed, EpisodesOf
      <4>4. \A k : k \in Completed(spec)' <=> /\ k \in DOMAIN episodes'
                                              /\ episodes'[k].spec = spec'
                                              /\ episodes'[k].status = "completed"
        BY DEF Completed, EpisodesOf
      <4>5. \A k : k \in Before(m)' <=> k \in Completed(spec)
        BY <2>7, <4>1, <4>2, <4>3, <4>4
      <4> HIDE DEF Before, Completed
      <4> QED BY <4>5
    <3>4. Cardinality(Completed(spec)) < MaxAttempts
      <4> DEFINE c == Cardinality(Completed(spec))
      <4>1. c \in Nat /\ c + (IF Pending THEN 1 ELSE 0) + 1 <= used
        BY <1>4, CompletedFinite DEF LadderInv, Paid
      <4> HIDE DEF c
      <4>2. c < MaxAttempts
        BY <1>1, <4>1, Bounds
      <4> QED BY <4>2 DEF c
    <3>5. \A i \in 1..n : Cardinality(Before(i)') < MaxAttempts
      BY <1>1, <3>1 DEF LadderInv, Rungs, Few
    <3>6. Cardinality(Before(m)') < MaxAttempts
      BY <3>3, <3>4
    <3>7. DOMAIN episodes' = 1..m /\ \A i \in 1..m : i \in 1..n \/ i = m
      BY <2>4, <2>5, <3>2
    <3> QED BY <3>5, <3>6, <3>7 DEF Few
  <2>13. Climbs'
    <3>1. \A i, k \in 1..n : \A j \in i..(k - 1) : j \in 1..n
      BY <1>1
    <3>2. ASSUME NEW i \in 1..n, NEW k \in 1..n, i < k, episodes'[i].spec = episodes'[k].spec
          PROVE  \/ episodes'[i].recovery < episodes'[k].recovery
                 \/ \E j \in i..(k - 1) : episodes'[j].status = "completed"
      <4>1. /\ episodes'[i].spec = episodes[i].spec /\ episodes'[i].recovery = episodes[i].recovery
            /\ episodes'[k].spec = episodes[k].spec /\ episodes'[k].recovery = episodes[k].recovery
            /\ \A j \in i..(k - 1) : episodes'[j].status = episodes[j].status
        BY <2>4, <3>1
      <4>2. \/ episodes[i].recovery < episodes[k].recovery
            \/ \E j \in i..(k - 1) : episodes[j].status = "completed"
        BY <1>1, <3>2, <4>1 DEF LadderInv, Rungs, Climbs
      <4> QED BY <4>1, <4>2
    <3>3. ASSUME NEW i \in 1..n, episodes[i].spec = spec
          PROVE  \/ episodes[i].recovery < NextRecovery
                 \/ \E j \in i..n : episodes[j].status = "completed"
      <4>1. n \in 1..n /\ episodes # <<>> /\ Latest = episodes[n] /\ i <= n /\ n \in i..n
        BY <1>1, EmptySeq DEF Latest
      <4>2. episodes[n] \in Row /\ episodes[i] \in Row
        BY <1>1, <4>1
      <4>3. Latest.spec = spec
        <5>1. i = n \/ i < n
          <6>1. n \in Nat /\ i \in 1..n
            BY <1>1
          <6> HIDE DEF n
          <6> QED BY <6>1
        <5>2. spec <= episodes[n].spec
          BY <1>1, <2>10, <3>3, <4>1, <5>1 DEF LadderInv, Rungs, InOrder
        <5> QED BY <2>10, <4>1, <5>2
      <4>4. Latest.status \in {"terminated", "completed"}
        BY <1>0, <1>8, <4>1, <4>2, <4>3 DEF CircuitOpen, Continues, Row
      <4>5. CASE Latest.status = "completed"
        BY <4>1, <4>5
      <4>6. CASE Latest.status = "terminated"
        <5>1. NextRecovery = Latest.recovery + 1 /\ Latest.recovery \in Nat /\ episodes[i].recovery \in Nat
          BY <4>1, <4>2, <4>6 DEF NextRecovery, Row
        <5>2. CASE i = n
          BY <4>1, <5>1, <5>2
        <5>3. CASE i < n
          <6>1. \/ episodes[i].recovery < episodes[n].recovery
                \/ \E j \in i..(n - 1) : episodes[j].status = "completed"
            BY <1>1, <3>3, <4>1, <4>3, <5>3 DEF LadderInv, Rungs, Climbs
          <6>2. CASE episodes[i].recovery < episodes[n].recovery
            BY <4>1, <5>1, <6>2
          <6>3. CASE \E j \in i..(n - 1) : episodes[j].status = "completed"
            <7>1. \A j \in i..(n - 1) : j \in i..n
              BY <1>1
            <7> QED BY <6>3, <7>1
          <6> QED BY <6>1, <6>2, <6>3
        <5> QED BY <1>1, <5>2, <5>3
      <4> QED BY <4>4, <4>5, <4>6
    <3>4. ASSUME NEW i \in 1..n, episodes'[i].spec = episodes'[n + 1].spec
          PROVE  \/ episodes'[i].recovery < episodes'[n + 1].recovery
                 \/ \E j \in i..((n + 1) - 1) : episodes'[j].status = "completed"
      <4>1. (n + 1) - 1 = n /\ \A j \in i..n : j \in 1..n
        BY <1>1
      <4>2. /\ episodes'[i].spec = episodes[i].spec /\ episodes'[i].recovery = episodes[i].recovery
            /\ episodes'[n + 1].spec = spec /\ episodes'[n + 1].recovery = NextRecovery
        BY <2>2, <2>4
      <4>3. \A j \in i..n : episodes'[j].status = episodes[j].status
        BY <2>4, <4>1
      <4> QED BY <3>3, <3>4, <4>1, <4>2, <4>3
    <3>5. \A i, k \in 1..(n + 1) : i < k => i \in 1..n /\ (k \in 1..n \/ k = n + 1)
      BY <1>1
    <3>6. DOMAIN episodes' = 1..(n + 1)
      BY <2>4
    <3> QED BY <3>2, <3>4, <3>5, <3>6 DEF Climbs
  <2> QED BY <1>4, <2>8, <2>9, <2>11, <2>12, <2>13 DEF LadderInv, Rungs
<1> QED BY <1>7, <1>8, PrepareWrites

(* The fault of the job at work ends its episode, but completes none.       *)
LEMMA TerminateLadder ==
  ASSUME EpisodeInv, Typed, StartInv, LadderInv, Terminate PROVE LadderInv'
<1>1. /\ UNCHANGED <<taskVars, driver, job>> /\ rc.pc = "terminate" /\ rc'.pc = "finalize"
  BY DEF Terminate, Typed, RcTyped
<1>2. PICK i : \E how \in {"terminated", "circuit_open"} : EndEpisode(i, how)
  <2>1. EndEpisode(job[rc.job].episode, "circuit_open") \/ EndEpisode(job[rc.job].episode, "terminated")
    BY DEF Terminate
  <2> QED BY <2>1
<1>3. /\ Rungs' /\ Len(episodes') = Len(episodes)
      /\ \A s : Completed(s)' = Completed(s)
  BY <1>1, <1>2, EndRungs DEF LadderInv, taskVars
<1>4. Completed(spec)' = Completed(spec)
  <2>1. spec' = spec
    BY <1>1 DEF taskVars
  <2>2. PICK t : t = spec
    OBVIOUS
  <2>3. Completed(t)' = Completed(t)
    BY <1>3
  <2> QED BY <2>1, <2>2, <2>3 DEF Completed, EpisodesOf
<1>5. ~Pending' /\ (Working' => Working)
  BY <1>1 DEF Pending, Working, Open, Ending, taskVars
<1>6. Paid'
  BY <1>1, <1>4, <1>5, PaidKept DEF LadderInv, taskVars
<1>7. Waits' /\ Placed'
  BY <1>1, <1>3 DEF LadderInv, Waits, Placed, taskVars
<1> QED BY <1>3, <1>6, <1>7 DEF LadderInv

(* What a fault settles is paid for by the checkpoint it leaves.            *)
LEMMA FinalizeLadder ==
  ASSUME EpisodeInv, Typed, StartInv, LadderInv, Finalize PROVE LadderInv'
<1>1. UNCHANGED <<spec, used, driver, episodes>> /\ rc.pc = "finalize" /\ rc'.pc = "idle"
  BY DEF Finalize, Idle
<1>2. rc.job \in Attempts /\ Open(rc.job) /\ \A a \in Attempts : ~Ending(a)
  BY <1>1, AtWorkIsRc
<1>3. Working /\ ~Pending'
  BY <1>1, <1>2 DEF Working, Pending
<1>4. Rungs' /\ Completed(spec)' = Completed(spec)
  BY <1>1, TimeKeepsRungs DEF LadderInv, Completed, EpisodesOf
<1>5. Paid'
  BY <1>1, <1>3, <1>4, PaidKept DEF LadderInv
<1>6. Waits'
  <2>1. rc.act \in {"ready", "human", "suspended"}
    BY <1>1 DEF Typed, RcTyped
  <2> QED BY <2>1 DEF LadderInv, Waits, Finalize
<1>7. Placed'
  <2>1. PICK j \in Attempts : j = rc.job
    BY <1>2
  <2>2. Len(episodes) \in Nat /\ Len(episodes') = Len(episodes) /\ NoJob.episode = 0
    BY <1>1, CompletedFinite DEF NoJob
  <2>3. job' = job \/ job' = [job EXCEPT ![j] = NoJob]
    BY <2>1 DEF Finalize
  <2>4. \A b \in Attempts : job'[b] = job[b] \/ job'[b] = NoJob
    <3>1. job \in [Attempts -> JobType]
      BY TypeParts DEF Typed
    <3> QED BY <2>3, <3>1
  <2>5. \A b \in Attempts : job'[b].episode <= Len(episodes)
    <3> DEFINE n == Len(episodes)
    <3>1. \A b \in Attempts : job[b].episode <= n
      BY DEF LadderInv, Placed
    <3>2. n \in Nat
      BY <2>2
    <3> HIDE DEF n
    <3>3. \A b \in Attempts : job'[b].episode <= n
      BY <2>2, <2>4, <3>1, <3>2
    <3> QED BY <3>3 DEF n
  <2> QED BY <2>2, <2>5 DEF Placed
<1> QED BY <1>4, <1>5, <1>6, <1>7 DEF LadderInv

(* A verdict: from now on the attempt is paid for by the completion.        *)
LEMMA VerdictLadder ==
  ASSUME EpisodeInv, Typed, StartInv, LadderInv, UNCHANGED <<spec, used, checkpoint, driver, episodes>>,
         \A a \in Attempts : job'[a].episode = job[a].episode,
         rc.pc \in {"verify", "confirm"}, RcTo("complete")
  PROVE  LadderInv'
<1>1. rc'.pc = "complete" /\ rc'.job = rc.job
  BY DEF RcTo, Typed, RcTyped
<1>2. /\ rc.job \in Attempts /\ Open(rc.job) /\ task \in {"running", "stopping"} /\ driver = 0
      /\ \A a \in Attempts : ~Ending(a) /\ (Open(a) => a = rc.job)
  BY AtWorkIsRc
<1>3. Working /\ checkpoint = 0
  BY <1>2 DEF Working, LadderInv, Waits
<1>4. ~Working'
  <2>1. \A a \in Attempts : Open(a)' => Ending(a)'
    BY <1>1, <1>2 DEF Open, Ending
  <2> QED BY <1>2, <1>3, <2>1 DEF Working
<1>5. Rungs' /\ Completed(spec)' = Completed(spec) /\ Len(episodes') = Len(episodes)
  BY TimeKeepsRungs DEF LadderInv, Completed, EpisodesOf
<1>6. Paid'
  <2> DEFINE c == Cardinality(Completed(spec))
  <2>1. c \in Nat /\ used \in Nat /\ Cardinality(Completed(spec)') = c
    BY <1>5, CompletedFinite, TypeParts DEF Typed
  <2>2. /\ c + (IF Pending THEN 1 ELSE 0) + 1 <= used
        /\ Paid' <=> c + (IF Pending' THEN 1 ELSE 0) + 0 <= used
    BY <1>3, <1>4, <2>1 DEF LadderInv, Paid
  <2> HIDE DEF c
  <2> QED BY <2>1, <2>2
<1>7. Waits' /\ Placed'
  BY <1>3, <1>5 DEF LadderInv, Waits, Placed
<1> QED BY <1>5, <1>6, <1>7 DEF LadderInv

LEMMA CompleteLadder ==
  ASSUME EpisodeInv, Typed, StartInv, LadderInv, Complete PROVE LadderInv'
<1>1. UNCHANGED <<taskVars, driver, job>> /\ rc.pc = "complete" /\ rc'.pc = "consume" /\ rc'.job = rc.job
  BY DEF Complete, RcTo, Typed, RcTyped
<1>2. PICK i : i = job[rc.job].episode /\ EndEpisode(i, "completed")
  BY DEF Complete
<1>3. /\ Rungs' /\ Len(episodes') = Len(episodes)
      /\ \A s : /\ i \notin EpisodesOf(s) => Completed(s)' = Completed(s)
                /\ Completed(s)' \subseteq Completed(s) \cup {i}
  BY <1>1, <1>2, EndRungs DEF LadderInv, taskVars
<1>4. /\ i \notin EpisodesOf(spec) => Completed(spec)' = Completed(spec)
      /\ Completed(spec)' \subseteq Completed(spec) \cup {i}
  BY <1>1, <1>3 DEF Completed, EpisodesOf, taskVars
<1>5. ~Pending' /\ (Working' <=> Working)
  BY <1>1 DEF Pending, Working, Open, Ending, taskVars
<1>6. Paid'
  <2>1. CASE i \notin EpisodesOf(spec)
    BY <1>1, <1>4, <1>5, <2>1, PaidKept DEF LadderInv, taskVars
  <2>2. CASE i \in EpisodesOf(spec)
    <3> DEFINE c == Cardinality(Completed(spec))
               d == Cardinality(Completed(spec)')
    <3>1. Pending
      BY <1>1, <1>2, <2>2 DEF Pending
    <3>2. c \in Nat /\ used \in Nat /\ d \in Nat /\ d <= c + 1
      <4>1. IsFiniteSet(Completed(spec)) /\ c \in Nat /\ used \in Nat
        BY CompletedFinite, TypeParts DEF Typed
      <4>2. /\ IsFiniteSet(Completed(spec) \cup {i})
            /\ Cardinality(Completed(spec) \cup {i}) \in Nat
            /\ Cardinality(Completed(spec) \cup {i}) <= c + 1
        BY <4>1, FS_AddElement
      <4>3. IsFiniteSet(Completed(spec)') /\ d <= Cardinality(Completed(spec) \cup {i})
        BY <1>4, <4>2, FS_Subset
      <4>4. d \in Nat
        BY <4>3, FS_CardinalityType
      <4> QED BY <4>1, <4>2, <4>3, <4>4
    <3>3. /\ c + 1 + (IF Working THEN 1 ELSE 0) <= used
          /\ Paid' <=> d + 0 + (IF Working THEN 1 ELSE 0) <= used
      BY <1>1, <1>5, <3>1, <3>2 DEF LadderInv, Paid, taskVars
    <3> HIDE DEF c, d
    <3> QED BY <3>2, <3>3
  <2> QED BY <2>1, <2>2
<1>7. Waits' /\ Placed'
  BY <1>1, <1>3 DEF LadderInv, Waits, Placed, taskVars
<1> QED BY <1>3, <1>6, <1>7 DEF LadderInv

LEMMA ConsumeLadder ==
  ASSUME EpisodeInv, Typed, LadderInv, Consume PROVE LadderInv'
<1>1. /\ UNCHANGED <<taskVars, driver, episodes>> /\ rc.pc = "consume" /\ rc'.pc = "idle"
      /\ job' = [job EXCEPT ![rc.job] = NoJob]
  BY DEF Consume, Idle
<1>2. PICK j \in Attempts : j = rc.job
  BY <1>1 DEF Typed, RcTyped
<1>3. ~Open(j)' /\ \A b \in Attempts : b # j => job'[b] = job[b]
  BY <1>1, <1>2, NoJobIsShut
<1>4. ~Pending' /\ (Working' => Working)
  BY <1>1, <1>2, <1>3 DEF Pending, Working, Open, Ending, taskVars
<1>5. Rungs' /\ Completed(spec)' = Completed(spec) /\ Len(episodes') = Len(episodes)
  BY <1>1, TimeKeepsRungs DEF LadderInv, Completed, EpisodesOf, taskVars
<1>6. Paid' /\ Waits'
  BY <1>1, <1>4, <1>5, PaidKept DEF LadderInv, Waits, taskVars
<1>7. Placed'
  <2>1. job'[j].episode = 0
    BY <1>3 DEF Open
  <2>2. Len(episodes) >= 0
    BY CompletedFinite
  <2> QED BY <1>3, <1>5, <2>1, <2>2 DEF LadderInv, Placed
<1> QED BY <1>5, <1>6, <1>7 DEF LadderInv

LEMMA LadderStep ==
  ASSUME ~CrashInFinish, EpisodeInv, Typed, StartInv, LadderInv, [Next]_vars PROVE LadderInv'
<1>1. CASE HardDeadline \/ Refused \/ Recover \/ Elapse \/ UNCHANGED vars
           \/ Cancel \/ ResumeSuspended \/ OperatorResume
  <2>1. /\ UNCHANGED <<spec, used, checkpoint, job, rc>> /\ driver' \in {driver, 0}
        /\ Elapse \/ UNCHANGED episodes
        /\ task' \in {"running", "stopping"} => task \in {"running", "stopping"}
    BY <1>1 DEF HardDeadline, Refused, Recover, Cancel, ResumeSuspended, OperatorResume, Elapse,
                vars, taskVars
  <2> QED BY <2>1, QuietLadder
<1>2. CASE Claim
  BY <1>2, ClaimLadder
<1>3. CASE Prepare
  BY <1>3, PrepareLadder
<1>4. CASE ReplaceSpec
  BY <1>4, ReplaceLadder
<1>5. ASSUME NEW a \in Attempts, Observe(a) PROVE LadderInv'
  BY <1>5, ObserveTurns, QuietLadder DEF taskVars
<1>6. ASSUME NEW a \in Attempts, GiveUp(a) \/ Suspend(a) PROVE LadderInv'
  <2>1. /\ UNCHANGED <<taskVars, driver, episodes, job>> /\ rc.pc = "idle"
        /\ \E act, force : rc' = Ends(a, act, force)
    BY <1>6 DEF GiveUp, Suspend
  <2>2. rc'.pc = "terminate"
    BY <2>1 DEF Ends, Goes, Idle
  <2> QED BY <2>1, <2>2, QuietLadder DEF taskVars
<1>7. CASE CancelReaches \/ CancelFails \/ EvidenceRefused \/ Crash
  <2>1. \A act : [rc EXCEPT !.pc = "terminate", !.act = act].pc = "terminate"
    BY DEF Typed, RcTyped
  <2>2. Idle.pc = "idle"
    BY DEF Idle
  <2>3. /\ UNCHANGED <<taskVars, episodes, job>> /\ rc.pc \notin {"complete", "consume"}
        /\ driver' \in {driver, 0} /\ rc'.pc \in {"terminate", "idle"}
    BY <1>7, <2>1, <2>2 DEF CancelReaches, CancelFails, EvidenceRefused, Crash
  <2> QED BY <2>3, QuietLadder DEF taskVars
<1>8. CASE VerifyFails
  <2>1. PICK bounded \in BOOLEAN :
          /\ ObserveEpisode(job[rc.job].episode, "transient_transport", FALSE, FALSE, bounded)
          /\ rc' = IF bounded THEN Ends(rc.job, "bounded", FALSE) ELSE Idle
    BY <1>8 DEF VerifyFails
  <2>2. UNCHANGED <<taskVars, driver, job, episodes>> /\ rc.pc = "verify"
    BY <1>8, <2>1, ObserveSees DEF VerifyFails
  <2>3. rc'.pc \in {"idle", "terminate"}
    BY <2>1 DEF Ends, Goes, Idle
  <2> QED BY <2>2, <2>3, QuietLadder DEF taskVars
<1>9. CASE Terminate
  BY <1>9, TerminateLadder
<1>10. CASE Finalize
  BY <1>10, FinalizeLadder
<1>11. CASE Finish
  <2>1. UNCHANGED <<spec, used, checkpoint, driver, episodes>> /\ rc.pc = "verify" /\ RcTo("complete")
    BY <1>11 DEF Finish
  <2>2. PICK j \in Attempts : j = rc.job
    BY <2>1 DEF Typed, RcTyped
  <2>3. job' = job \/ job' = [job EXCEPT ![j].done = TRUE]
    BY <1>11, <2>2 DEF Finish
  <2>4. \A a \in Attempts : job'[a].episode = job[a].episode
    BY <2>3, JobRemarked
  <2> QED BY <2>1, <2>4, VerdictLadder
<1>12. CASE ConfirmCancel
  <2>1. UNCHANGED <<spec, used, checkpoint, driver, episodes, job>> /\ rc.pc = "confirm"
    BY <1>12 DEF ConfirmCancel
  <2>2. CASE RcTo("complete")
    BY <2>1, <2>2, VerdictLadder
  <2>3. CASE rc' = Idle /\ UNCHANGED task
    <3>1. rc'.pc = "idle"
      BY <2>3 DEF Idle
    <3> QED BY <2>1, <2>3, <3>1, QuietLadder
  <2> QED BY <1>12, <2>2, <2>3 DEF ConfirmCancel
<1>13. CASE Complete
  BY <1>13, CompleteLadder
<1>14. CASE Consume
  BY <1>14, ConsumeLadder
<1> QED BY <1>1, <1>2, <1>3, <1>4, <1>5, <1>6, <1>7, <1>8, <1>9, <1>10, <1>11, <1>12, <1>13, <1>14
        DEF Next, Drive, Settle, Operate

(* Two episodes of a specification with as many completed ones before them  *)
(* stand on different rungs.                                                *)
LEMMA PlacesDiffer ==
  ASSUME EpisodeInv, Rungs, NEW i \in DOMAIN episodes, NEW k \in DOMAIN episodes, i < k,
         episodes[i].spec = episodes[k].spec, episodes[i].recovery = episodes[k].recovery
  PROVE  Cardinality(Before(i)) < Cardinality(Before(k))
<1>1. /\ DOMAIN episodes = 1..Len(episodes) /\ Len(episodes) \in Nat
      /\ \A m \in DOMAIN episodes : episodes[m] \in Row
  BY CompletedFinite
<1>2. PICK j \in i..(k - 1) : episodes[j].status = "completed"
  <2>1. episodes[i].recovery \in Nat
    BY <1>1 DEF Row
  <2>2. ~(episodes[i].recovery < episodes[k].recovery)
    BY <2>1
  <2> QED BY <2>2 DEF Rungs, Climbs
<1>3. j \in DOMAIN episodes /\ j < k /\ ~(j < i) /\ i <= j
  BY <1>1
<1>4. episodes[j].spec = episodes[i].spec
  <2>1. episodes[i].spec \in Nat /\ episodes[j].spec \in Nat
    BY SMTT(30), <1>1, <1>3, Bounds DEF Row
  <2>2. i = j \/ i < j
    BY <1>1, <1>3
  <2>3. episodes[i].spec <= episodes[j].spec /\ episodes[j].spec <= episodes[k].spec
    BY <1>3, <2>1, <2>2 DEF Rungs, InOrder
  <2> QED BY <2>1, <2>3
<1>5. j \in Before(k) /\ j \notin Before(i)
  BY <1>2, <1>3, <1>4 DEF Before, Completed, EpisodesOf
<1>6. Before(i) \subseteq Before(k)
  <2>1. \A m \in DOMAIN episodes : m < i => m < k
    BY <1>1
  <2> QED BY <2>1 DEF Before, Completed, EpisodesOf
<1>7. IsFiniteSet(Before(k))
  <2>1. Before(k) \subseteq Completed(episodes[k].spec)
    BY DEF Before
  <2> QED BY <2>1, CompletedFinite, FS_Subset
<1>8. /\ IsFiniteSet(Before(i)) /\ Cardinality(Before(i)) <= Cardinality(Before(k))
      /\ Cardinality(Before(k)) # Cardinality(Before(i))
  BY <1>5, <1>6, <1>7, FS_Subset
<1>9. Cardinality(Before(i)) \in Nat /\ Cardinality(Before(k)) \in Nat
  BY <1>7, <1>8, FS_CardinalityType
<1> QED BY <1>8, <1>9

(* A process of the specification is told by the rung of its episode, by    *)
(* the episodes completed before it, and by its number in the episode.      *)
LEMMA SpendIsBounded ==
  ASSUME EpisodeInv, Typed, LadderInv, NEW s
  PROVE  Cardinality(ProcessesOf(s)) <= MaxAttempts * 4 * MaxProcesses
<1> DEFINE P == ProcessesOf(s)
           A == 0..(MaxAttempts - 1)
           R == 0..3
           M == 1..MaxProcesses
           T == (A \X R) \X M
           f == [x \in P |-> <<<<Cardinality(Before(x[1])), episodes[x[1]].recovery>>, x[2]>>]
<1>1. \A x \in P : /\ x = <<x[1], x[2]>> /\ x[1] \in DOMAIN episodes /\ episodes[x[1]].spec = s
                   /\ x[2] \in 1..episodes[x[1]].processes
  BY DEF ProcessesOf, EpisodesOf
<1>2. ASSUME NEW i \in DOMAIN episodes
      PROVE  /\ Cardinality(Before(i)) \in A /\ episodes[i].recovery \in R
             /\ episodes[i].processes \in 0..MaxProcesses /\ i \in Nat
  <2>1. episodes[i] \in EpisodeRow
    BY RowsAgree DEF Typed
  <2>2. IsFiniteSet(Before(i))
    <3>1. Before(i) \subseteq Completed(episodes[i].spec)
      BY DEF Before
    <3> QED BY <3>1, CompletedFinite, FS_Subset
  <2> DEFINE c == Cardinality(Before(i))
  <2>3. c \in Nat /\ c < MaxAttempts
    BY <2>2, FS_CardinalityType DEF LadderInv, Rungs, Few
  <2> HIDE DEF c
  <2>4. c \in 0..(MaxAttempts - 1)
    BY <2>3, Bounds
  <2>5. i \in Nat
    BY CompletedFinite
  <2> QED BY <2>1, <2>4, <2>5 DEF EpisodeRow, c
<1>3. f \in [P -> T]
  <2>1. ASSUME NEW x \in P PROVE x[2] \in M
    <3>1. PICK q : q = episodes[x[1]].processes
      OBVIOUS
    <3>2. q \in 0..MaxProcesses /\ x[2] \in 1..q
      BY <1>1, <1>2, <3>1
    <3> QED BY <3>2, Bounds
  <2> QED BY <1>1, <1>2, <2>1
<1>4. ASSUME NEW x \in P, NEW y \in P, f[x] = f[y] PROVE x = y
  <2>1. /\ Cardinality(Before(x[1])) = Cardinality(Before(y[1]))
        /\ episodes[x[1]].recovery = episodes[y[1]].recovery /\ x[2] = y[2]
    BY <1>4
  <2> HIDE DEF f, P
  <2>2. Cardinality(Before(x[1])) \in Nat
    BY <1>1, <1>2, Bounds
  <2>3. ~(x[1] < y[1]) /\ ~(y[1] < x[1])
    BY <1>1, <2>1, <2>2, PlacesDiffer DEF LadderInv
  <2>4. x[1] = y[1]
    BY <1>1, <1>2, <2>3
  <2> QED BY <1>1, <2>1, <2>4
<1>5. f \in Injection(P, T)
  <2> HIDE DEF f, P, T
  <2> QED BY <1>3, <1>4 DEF Injection, IsInjective
<1> HIDE DEF P, f
<1>6. /\ IsFiniteSet(A) /\ Cardinality(A) = MaxAttempts
      /\ IsFiniteSet(R) /\ Cardinality(R) = 4
      /\ IsFiniteSet(M) /\ Cardinality(M) = MaxProcesses
  <2>1. 0 \in Int /\ 1 \in Int /\ 3 \in Int /\ MaxAttempts - 1 \in Int /\ MaxProcesses \in Int
        /\ ~(0 > MaxAttempts - 1) /\ ~(1 > MaxProcesses) /\ ~(0 > 3)
        /\ (MaxAttempts - 1) - 0 + 1 = MaxAttempts /\ MaxProcesses - 1 + 1 = MaxProcesses
        /\ 3 - 0 + 1 = 4
    BY Bounds
  <2>2. IsFiniteSet(A) /\ Cardinality(A) = MaxAttempts
    BY <2>1, FS_Interval
  <2>3. IsFiniteSet(R) /\ Cardinality(R) = 4
    BY <2>1, FS_Interval
  <2>4. IsFiniteSet(M) /\ Cardinality(M) = MaxProcesses
    BY <2>1, FS_Interval
  <2> QED BY <2>2, <2>3, <2>4
<1> HIDE DEF A, R, M
<1>7. IsFiniteSet(A \X R) /\ Cardinality(A \X R) = MaxAttempts * 4
  BY <1>6, FS_Product
<1>8. IsFiniteSet(T) /\ Cardinality(T) = MaxAttempts * 4 * MaxProcesses
  <2>1. IsFiniteSet(T) /\ Cardinality(T) = Cardinality(A \X R) * Cardinality(M)
    BY <1>6, <1>7, FS_Product
  <2> QED BY <1>6, <1>7, <2>1
<1> HIDE DEF T
<1>9. Cardinality(P) <= Cardinality(T)
  BY <1>5, <1>8, FS_Injection
<1> QED BY <1>8, <1>9 DEF P

(* If the control plane does not die between recording a verdict and        *)
(* consuming its job, a specification never costs more than one ladder of   *)
(* four episodes of MaxProcesses processes for each of its attempts,        *)
(* however often faults, outages, refused starts, crashes elsewhere and     *)
(* operators send the task round again.                                     *)
THEOREM SpecificationCostBounded ==
  ASSUME ~CrashInFinish PROVE Spec => []SpendBounded
<1>1. Init => StartInv /\ LadderInv
  <2> SUFFICES ASSUME Init PROVE StartInv /\ LadderInv
    OBVIOUS
  <2>1. /\ rc.pc = "idle" /\ driver = 0 /\ ~Full /\ \A a \in Attempts : ~Open(a) /\ job[a].episode = 0
        /\ checkpoint = 0 /\ used = 0
    BY DEF Init, Idle, Full, Continues, Open, NoJob
  <2>2. StartInv
    BY <2>1 DEF StartInv, OneJob, FullInUse, SettledHasRoom
  <2>3. DOMAIN episodes = {} /\ Len(episodes) = 0
    BY DEF Init
  <2>4. Rungs
    BY <2>3 DEF Rungs, InOrder, Climbs, Few
  <2>5. Completed(spec) = {} /\ Cardinality({}) = 0
    BY <2>3, FS_EmptySet DEF Completed, EpisodesOf
  <2>6. ~Pending /\ ~Working
    BY <2>1 DEF Pending, Working
  <2>7. Cardinality(Completed(spec)) = 0
    BY <2>5
  <2>8. Paid
    BY <2>1, <2>6, <2>7 DEF Paid
  <2>9. Waits /\ Placed
    BY <2>1, <2>3 DEF Waits, Placed
  <2> QED BY <2>2, <2>4, <2>8, <2>9 DEF LadderInv
<1>2. EpisodeInv /\ Typed /\ LadderInv => SpendBounded
  BY SpendIsBounded DEF SpendBounded
<1>3. EpisodeInv /\ Typed /\ StartInv /\ [Next]_vars => StartInv'
  BY StartStep
<1>4. EpisodeInv /\ Typed /\ StartInv /\ LadderInv /\ [Next]_vars => LadderInv'
  BY LadderStep
<1> QED BY <1>1, <1>2, <1>3, <1>4, TypedHolds, PTL DEF Spec
=============================================================================
