----------------------------- MODULE FanOutProofs -----------------------------
(* Proofs about FanOut, for every number of URLs, every limit, every list of *)
(* items and every command line.  What moves a job from one stage to another *)
(* changes a set of jobs that are at given stages by that job or not at all  *)
(* (MoveIn); the bounds are about two such sets, and the order in which the  *)
(* answers come is an enumeration of a third.                                *)
EXTENDS FanOut, FiniteSetTheorems, SequenceTheorems, TLAPS

In(stages) == {j \in Jobs : stage[j] \in stages}
Network == {"send", "body"}
Working == {"send", "body", "parse"}

(* No job starts during the search, or beyond the ones there are, and        *)
(* web_extract's wait for no permit.                                         *)
NotYet == phase # "jobs" => \A j \in Job : stage[j] = "new"
OnlyJobs ==
    /\ \A j \in Job \ Jobs : stage[j] = "new"
    /\ tool = "extract" => \A j \in Job : stage[j] # "wait"

(* web_extract counts its jobs, the others the permits they have left.       *)
PermitsLeft ==
    /\ tool = "extract" => Cardinality(In(Working)) <= Concurrency
    /\ tool # "extract" => permits + Cardinality(In(Network)) = Concurrency

(* The answers so far are those of the jobs that are done, each once.        *)
OrderIsDone ==
    /\ {order[k] : k \in DOMAIN order} = In({"done"})
    /\ Len(order) = Cardinality(In({"done"}))

(* What is joined is complete, and no more was found than was wanted.        *)
JoinedLast ==
    /\ reply = "joined" => \A j \in Jobs : stage[j] = "done"
    /\ Searching => Len(results) <= want
    /\ phase # "jobs" => Searching

IInv ==
    /\ TypeOK
    /\ NotYet /\ OnlyJobs
    /\ PermitsLeft
    /\ OrderIsDone
    /\ JoinedLast

-----------------------------------------------------------------------------
(* Positions up to n are n.                                                  *)
LEMMA UpTo ==
    ASSUME NEW n \in Nat
    PROVE  IsFiniteSet(1..n) /\ Cardinality(1..n) = n
BY FS_Interval

(* What a provider sends is cut to what was asked for.                       *)
LEMMA WholeOnlyFacts ==
    ASSUME NEW items \in Seq(Item)
    PROVE  WholeOnly(items) \in Seq(Item) /\ Len(WholeOnly(items)) <= Len(items)
<1> DEFINE whole == {i \in DOMAIN items : items[i] = "whole"}
<1>1. Len(items) \in Nat /\ DOMAIN items = 1..Len(items)
  BY LenProperties
<1>2. IsFiniteSet(1..Len(items)) /\ Cardinality(1..Len(items)) = Len(items)
  BY <1>1, UpTo
<1>3. whole \in SUBSET (1..Len(items))
  BY <1>1
<1>4. Cardinality(whole) \in Nat /\ Cardinality(whole) <= Len(items)
  BY <1>2, <1>3, FS_Subset, FS_CardinalityType
<1> HIDE DEF whole
<1>5. [k \in 1..Cardinality(whole) |-> "whole"] \in Seq(Item)
  BY <1>4 DEF Item
<1>6. Len([k \in 1..Cardinality(whole) |-> "whole"]) = Cardinality(whole)
  BY <1>4, <1>5
<1> QED
  BY <1>4, <1>5, <1>6 DEF WholeOnly, whole

(* A search gives items, no more than are wanted and no more than there are. *)
LEMMA ResultsFacts ==
    ASSUME NEW items \in Pages, NEW shape, NEW p, NEW n \in Nat
    PROVE  /\ Results(p, shape, items, n) \in Seq(Item)
           /\ Len(Results(p, shape, items, n)) <= Urls
           /\ Len(Results(p, shape, items, n)) <= n
<1> DEFINE usable == Usable(p, items)
           cut == IF n < Len(usable) THEN n ELSE Len(usable)
<1>1. items \in Seq(Item) /\ Len(items) <= Urls /\ Urls \in Nat
  BY FanOutAssumption
<1>2. usable \in Seq(Item) /\ Len(usable) <= Urls
  BY <1>1, WholeOnlyFacts, LenProperties DEF Usable
<1> HIDE DEF usable
<1>3. Len(usable) \in Nat /\ \A i \in 1..Len(usable) : usable[i] \in Item
  BY <1>2, LenProperties, ElementOfSeq
<1>4. cut \in Nat /\ cut <= n /\ cut <= Len(usable)
  BY <1>3
<1> HIDE DEF cut
<1>5. \A i \in 1..cut : usable[i] \in Item
  BY <1>3, <1>4
<1>6. SubSeq(usable, 1, cut) \in Seq(Item) /\ Len(SubSeq(usable, 1, cut)) = cut
  BY <1>4, <1>5, SubSeqProperties
<1>7. Taken(p, items, n) = SubSeq(usable, 1, cut)
  BY DEF Taken, FirstOf, usable, cut
<1>8. CASE shape = "items"
  BY <1>1, <1>2, <1>3, <1>4, <1>6, <1>7, <1>8 DEF Results
<1>9. CASE shape # "items"
  BY <1>1, <1>9, EmptySeq DEF Results
<1> QED
  BY <1>8, <1>9

-----------------------------------------------------------------------------
(* The jobs are among 1..Urls, so every set of them is finite.               *)
LEMMA JobFacts ==
    TypeOK => /\ DOMAIN results = 1..Len(results) /\ DOMAIN results \subseteq Job
              /\ Len(results) \in Nat /\ Jobs \subseteq Job
              /\ IsFiniteSet(Job)
<1> SUFFICES ASSUME TypeOK
             PROVE  /\ DOMAIN results = 1..Len(results) /\ DOMAIN results \subseteq Job
                    /\ Len(results) \in Nat /\ Jobs \subseteq Job
                    /\ IsFiniteSet(Job)
  OBVIOUS
<1>1. Len(results) \in Nat /\ DOMAIN results = 1..Len(results)
  BY LenProperties DEF TypeOK
<1>2. Urls \in Nat /\ Len(results) <= Urls
  BY FanOutAssumption DEF TypeOK
<1>3. IsFiniteSet(Job)
  BY <1>2, UpTo DEF Job
<1>4. DOMAIN results \subseteq Job
  BY <1>1, <1>2 DEF Job
<1>5. Jobs \subseteq DOMAIN results
  BY DEF Jobs
<1> QED
  BY <1>1, <1>3, <1>4, <1>5

(* The jobs at given stages are finitely many.                               *)
LEMMA InFinite ==
    ASSUME TypeOK, NEW X
    PROVE  IsFiniteSet(In(X)) /\ Cardinality(In(X)) \in Nat
<1>1. In(X) \in SUBSET Job
  BY JobFacts DEF In
<1> QED
  BY <1>1, JobFacts, FS_Subset, FS_CardinalityType

(* The two sets that the bounds are about.                                   *)
LEMMA InNames ==
    OnNetwork = In(Network) /\ Active = In(Working) /\ In(Network) \subseteq In(Working)
BY DEF OnNetwork, Active, At, In, Network, Working

(* A job that moves enters a set of stages, leaves it, or does neither.      *)
LEMMA MoveIn ==
    ASSUME TypeOK, NEW j \in Job, NEW from, NEW to, Move(j, from, to), NEW X
    PROVE  /\ Jobs' = Jobs /\ j \in Jobs
           /\ from \notin X /\ to \in X =>
                 /\ j \notin In(X) /\ In(X)' = In(X) \cup {j}
                 /\ Cardinality(In(X)') = Cardinality(In(X)) + 1
           /\ from \in X /\ to \notin X =>
                 /\ j \in In(X) /\ In(X)' = In(X) \ {j}
                 /\ Cardinality(In(X)') = Cardinality(In(X)) - 1
           /\ (from \in X <=> to \in X) => In(X)' = In(X)
<1>1. Jobs' = Jobs /\ j \in Jobs
  BY DEF Move, call, Jobs
<1>2. /\ stage \in [Job -> JobStage] /\ Jobs \subseteq Job
      /\ stage[j] = from /\ stage' = [stage EXCEPT ![j] = to]
  BY JobFacts DEF TypeOK, Move
<1>3. /\ from \notin X /\ to \in X => j \notin In(X) /\ In(X)' = In(X) \cup {j}
      /\ from \in X /\ to \notin X => j \in In(X) /\ In(X)' = In(X) \ {j}
      /\ (from \in X <=> to \in X) => In(X)' = In(X)
  BY <1>1, <1>2 DEF In
<1> QED
  BY <1>1, <1>3, InFinite, FS_AddElement, FS_RemoveElement

(* As long as all jobs are new, no set of later stages has a job.            *)
LEMMA NoneIn ==
    ASSUME TypeOK, \A j \in Job : stage[j] = "new", NEW X, "new" \notin X
    PROVE  In(X) = {} /\ Cardinality(In(X)) = 0
BY JobFacts, FS_EmptySet DEF In

-----------------------------------------------------------------------------
(* The invariant holds before the call.                                      *)
LEMMA InitIInv == Init => IInv
<1> SUFFICES ASSUME Init PROVE IInv
  OBVIOUS
<1> USE FanOutAssumption
<1>1. results \in Seq(Item) /\ Len(results) <= Urls
  <2>1. CASE Searching
    BY <2>1, EmptySeq DEF Init
  <2>2. CASE ~Searching
    <3>1. [j \in Job |-> "whole"] \in Seq(Item)
      BY DEF Job, Item
    <3>2. Len([j \in Job |-> "whole"]) = Urls
      BY <3>1 DEF Job
    <3> QED
      BY <2>2, <3>1, <3>2 DEF Init
  <2> QED
    BY <2>1, <2>2
<1>2. order = <<>> /\ <<>> \in Seq(Job) /\ Len(<<>>) = 0
  BY EmptySeq DEF Init
<1>3. TypeOK
  BY <1>1, <1>2 DEF Init, TypeOK, JobStage
<1>4. \A j \in Job : stage[j] = "new"
  BY DEF Init
<1>5. PermitsLeft
  BY <1>3, <1>4, NoneIn DEF PermitsLeft, Network, Working, Init
<1>6. OrderIsDone
  <2>1. In({"done"}) = {} /\ Cardinality(In({"done"})) = 0
    BY <1>3, <1>4, NoneIn
  <2> QED
    BY <1>2, <2>1 DEF OrderIsDone
<1>7. JoinedLast
  BY EmptySeq DEF Init, JoinedLast, Searching
<1> QED
  BY <1>3, <1>4, <1>5, <1>6, <1>7 DEF IInv, NotYet, OnlyJobs

-----------------------------------------------------------------------------
(* Every step but those of the jobs leaves them alone; the results only      *)
(* change while nothing has started.                                         *)
Quiet == SearchStep \/ Refuse \/ Join \/ Deadline \/ UNCHANGED vars

(* What every step of the search leaves alone.                               *)
LEMMA QuietFacts ==
    TypeOK /\ Quiet => /\ UNCHANGED <<call, jobs>>
                       /\ UNCHANGED results \/ phase # "jobs"
                       /\ phase = "jobs" => phase' = "jobs"
BY DEF Quiet, SearchStep, Ask, Headers, ReadSearch, Parse, Discard, Refuse, Join, Deadline,
   Open, vars, call, jobs

(* What no step of the search, and no step of a job, does to a set of later  *)
(* stages.                                                                   *)
LEMMA QuietIn ==
    ASSUME TypeOK, TypeOK', NotYet, Quiet, NEW X, "new" \notin X
    PROVE  In(X)' = In(X)
<1>1. UNCHANGED <<call, jobs>> /\ (UNCHANGED results \/ phase # "jobs")
  BY QuietFacts
<1>2. CASE UNCHANGED results
  BY <1>1, <1>2 DEF In, Jobs, call, jobs
<1>3. CASE phase # "jobs"
  <2>1. \A j \in Job : stage[j] = "new" /\ stage'[j] = "new"
    BY <1>1, <1>3 DEF NotYet, jobs
  <2>2. Jobs \subseteq Job /\ Jobs' \subseteq Job
    <3>1. Jobs \subseteq Job
      BY JobFacts
    <3>2. DOMAIN results' = 1..Len(results') /\ Len(results') <= Urls /\ Len(results') \in Nat
      BY LenProperties DEF TypeOK
    <3>3. Jobs' \subseteq DOMAIN results'
      BY DEF Jobs
    <3>4. DOMAIN results' \subseteq Job
      BY <3>2, FanOutAssumption DEF Job
    <3> QED
      BY <3>1, <3>3, <3>4
  <2> QED
    BY <2>1, <2>2 DEF In
<1> QED
  BY <1>1, <1>2, <1>3

(* Starting the jobs puts none of them on the network.                       *)
LEMMA PushIn ==
    ASSUME TypeOK, Push, NEW X, "new" \notin X, "wait" \notin X
    PROVE  In(X)' = In(X)
<1>1. Jobs' = Jobs /\ Jobs \subseteq Job
  BY JobFacts DEF Push, call, Jobs
<1>2. \A j \in Jobs : stage[j] = "new" /\ stage'[j] = "wait"
  BY <1>1 DEF Push
<1> QED
  BY <1>1, <1>2 DEF In

(* A job moves from one stage to a later one.                                *)
Moves == {<<"new", "send">>, <<"wait", "send">>, <<"send", "body">>, <<"send", "done">>,
          <<"body", "parse">>, <<"body", "done">>, <<"parse", "done">>}

(* Every step of a job moves it from one stage to another.                   *)
LEMMA WorkMoves ==
    ASSUME NEW j \in Job, Work(j)
    PROVE  \E m \in Moves :
              /\ Move(j, m[1], m[2])
              /\ IF m[2] = "done" THEN order' = Append(order, j) ELSE order' = order
BY DEF Work, Pull, Acquire, Respond, SendEnd, BodyEnd, ParseEnd, FetchEnd, Finish, Moves

-----------------------------------------------------------------------------
(* Every variable stays in its type, but for the bound of the permits.       *)
LEMMA StepTypes ==
    ASSUME TypeOK, [Next]_vars, permits' \in 0..Concurrency
    PROVE  TypeOK'
<1> USE FanOutAssumption DEF TypeOK
<1>1. CASE SearchStep
  <2>1. CASE Ask
    BY <1>1, <2>1 DEF Ask, Open, Answer, OwnCheck, SearchError, call, jobs
  <2>2. CASE Headers
    BY <1>1, <2>2 DEF Headers, Open, Answer, SearchError, call, jobs
  <2>3. CASE ReadSearch
    <3>1. ASSUME NEW shape \in Shape, NEW page \in Pages, Parse(shape, page) PROVE TypeOK'
      <4>1. want \in Nat
        BY DEF TypeOK
      <4>2. results' \in Seq(Item) /\ Len(results') <= Urls
        BY <3>1, <4>1, ResultsFacts DEF Parse
      <4> QED
        BY <2>3, <3>1, <4>2 DEF ReadSearch, Parse, call, jobs
    <3>2. CASE Answer("provider") /\ UNCHANGED <<phase, results>>
      BY <2>3, <3>2 DEF ReadSearch, Answer, SearchError, call, jobs
    <3> QED
      BY <2>3, <3>1, <3>2 DEF ReadSearch
  <2>4. CASE Discard
    BY <1>1, <2>4 DEF Discard, Open, Answer, SearchError, call, jobs
  <2> QED
    BY <1>1, <2>1, <2>2, <2>3, <2>4 DEF SearchStep
<1>2. CASE Refuse \/ Join \/ Deadline
  BY <1>2 DEF Refuse, Join, Deadline, Answer, call, jobs
<1>3. CASE Push
  BY <1>3 DEF Push, JobStage, call
<1>4. ASSUME NEW j \in Job, Work(j) PROVE TypeOK'
  <2>1. PICK m \in Moves :
           /\ Move(j, m[1], m[2])
           /\ IF m[2] = "done" THEN order' = Append(order, j) ELSE order' = order
    BY <1>4, WorkMoves
  <2>2. order' \in Seq(Job)
    <3>1. order \in Seq(Job)
      BY DEF TypeOK
    <3>2. Append(order, j) \in Seq(Job)
      BY <3>1, AppendProperties
    <3> QED
      BY <2>1, <3>1, <3>2
  <2>3. stage' \in [Job -> JobStage]
    BY <2>1 DEF Move, Moves, JobStage
  <2> QED
    BY <2>1, <2>2, <2>3 DEF Move, call
<1>5. CASE UNCHANGED vars
  BY <1>5 DEF vars, call, jobs
<1> QED
  BY <1>1, <1>2, <1>3, <1>4, <1>5 DEF Next

(* A job on the network has a permit, or is counted by buffer_unordered.     *)
LEMMA StepPermits ==
    ASSUME TypeOK, NotYet, OnlyJobs, PermitsLeft, [Next]_vars
    PROVE  PermitsLeft' /\ permits' \in 0..Concurrency
<1>0. /\ permits \in 0..Concurrency /\ Concurrency \in Nat
      /\ Cardinality(In(Network)) \in Nat /\ Cardinality(In(Working)) \in Nat
  BY FanOutAssumption, InFinite DEF TypeOK
<1>1. CASE Quiet
  <2>1. UNCHANGED <<tool, permits>>
    BY <1>1, QuietFacts DEF call, jobs
  <2>2. TypeOK'
    BY <1>0, <2>1, StepTypes
  <2>3. In(Network)' = In(Network) /\ In(Working)' = In(Working)
    <3>1. "new" \notin Network /\ "new" \notin Working
      BY DEF Network, Working
    <3> QED
      BY <1>1, <2>2, <3>1, QuietIn
  <2> QED
    BY <1>0, <2>1, <2>3 DEF PermitsLeft
<1>2. CASE Push
  <2>1. In(Network)' = In(Network) /\ In(Working)' = In(Working)
    <3>1. \A s \in {"new", "wait"} : s \notin Network /\ s \notin Working
      BY DEF Network, Working
    <3> QED
      BY <1>2, <3>1, PushIn
  <2> QED
    BY <1>0, <1>2, <2>1 DEF PermitsLeft, Push, call
<1>3. ASSUME NEW j \in Job, Work(j) PROVE PermitsLeft' /\ permits' \in 0..Concurrency
  <2>0. tool' = tool
    BY <1>3, WorkMoves DEF Move, call
  <2>1. CASE Pull(j)
    <3>1. Move(j, "new", "send") /\ tool = "extract" /\ permits' = permits
      BY <2>1 DEF Pull
    <3>2. Cardinality(In(Working)') = Cardinality(In(Working)) + 1
      BY <3>1, MoveIn DEF Working
    <3>3. Cardinality(In(Working)) < Concurrency
      BY <2>1, InNames DEF Pull
    <3> QED
      BY <1>0, <2>0, <3>1, <3>2, <3>3 DEF PermitsLeft
  <2>2. CASE Acquire(j)
    <3>1. Move(j, "wait", "send") /\ permits > 0 /\ permits' = permits - 1
      BY <2>2 DEF Acquire
    <3>2. tool # "extract"
      BY <3>1 DEF OnlyJobs, Move
    <3>3. Cardinality(In(Network)') = Cardinality(In(Network)) + 1
      BY <3>1, MoveIn DEF Network
    <3> QED
      BY <1>0, <2>0, <3>1, <3>2, <3>3 DEF PermitsLeft
  <2>3. CASE Respond(j)
    <3>1. Move(j, "send", "body") /\ permits' = permits
      BY <2>3 DEF Respond
    <3>2. In(Network)' = In(Network) /\ In(Working)' = In(Working)
      BY <3>1, MoveIn DEF Network, Working
    <3> QED
      BY <1>0, <2>0, <3>1, <3>2 DEF PermitsLeft
  <2>4. ASSUME NEW from \in Network, NEW to \in {"parse", "done"}, Move(j, from, to), Release
        PROVE  PermitsLeft' /\ permits' \in 0..Concurrency
    <3>1. Cardinality(In(Network)') = Cardinality(In(Network)) - 1
      BY <2>4, MoveIn DEF Network
    <3>2. Cardinality(In(Working)') <= Cardinality(In(Working))
      BY <1>0, <2>4, MoveIn DEF Network, Working
    <3>3. Cardinality(In(Network)') \in Nat /\ Cardinality(In(Working)') \in Nat
      <4>1. In(Network)' \in SUBSET In(Network) /\ In(Working)' \in SUBSET In(Working)
        BY <2>4, MoveIn DEF Network, Working
      <4> QED
        BY <4>1, InFinite, FS_Subset, FS_CardinalityType
    <3>4. permits' = IF tool = "extract" THEN permits ELSE permits + 1
      BY <2>4 DEF Release
    <3> QED
      BY <1>0, <2>0, <3>1, <3>2, <3>3, <3>4 DEF PermitsLeft
  <2>5. CASE SendEnd(j) \/ BodyEnd(j)
    BY <2>4, <2>5 DEF SendEnd, BodyEnd, FetchEnd, Network
  <2>6. CASE ParseEnd(j)
    <3>1. Move(j, "parse", "done") /\ permits' = permits
      BY <2>6 DEF ParseEnd
    <3>2. In(Network)' = In(Network) /\ Cardinality(In(Working)') = Cardinality(In(Working)) - 1
      BY <3>1, MoveIn DEF Network, Working
    <3> QED
      BY <1>0, <2>0, <3>1, <3>2 DEF PermitsLeft
  <2> QED
    BY <1>3, <2>1, <2>2, <2>3, <2>5, <2>6 DEF Work
<1> QED
  BY <1>1, <1>2, <1>3 DEF Next, Quiet

(* The answers are appended as the jobs get done.                            *)
LEMMA StepOrder ==
    ASSUME TypeOK, TypeOK', NotYet, OrderIsDone, [Next]_vars
    PROVE  OrderIsDone'
<1>0. order \in Seq(Job) /\ Len(order) \in Nat /\ DOMAIN order = 1..Len(order)
  BY LenProperties DEF TypeOK
<1>1. ASSUME order' = order, In({"done"})' = In({"done"}) PROVE OrderIsDone'
  BY <1>1 DEF OrderIsDone
<1>2. CASE Quiet
  <2>1. In({"done"})' = In({"done"})
    BY <1>2, QuietIn
  <2> QED
    BY <1>1, <1>2, <2>1, QuietFacts DEF jobs
<1>3. CASE Push
  <2>1. In({"done"})' = In({"done"})
    BY <1>3, PushIn
  <2> QED
    BY <1>1, <1>3, <2>1 DEF Push
<1>4. ASSUME NEW j \in Job, Work(j) PROVE OrderIsDone'
  <2>1. PICK m \in Moves :
           /\ Move(j, m[1], m[2])
           /\ IF m[2] = "done" THEN order' = Append(order, j) ELSE order' = order
    BY <1>4, WorkMoves
  <2>2. m[1] # "done"
    BY DEF Moves
  <2>3. CASE m[2] = "done"
    <3>1. /\ In({"done"})' = In({"done"}) \cup {j}
          /\ Cardinality(In({"done"})') = Cardinality(In({"done"})) + 1
      BY <2>1, <2>2, <2>3, MoveIn
    <3>2. /\ order' \in Seq(Job) /\ Len(order') = Len(order) + 1
          /\ \A k \in 1..Len(order) : order'[k] = order[k]
          /\ order'[Len(order) + 1] = j
      BY <1>0, <2>1, <2>3, AppendProperties
    <3>3. DOMAIN order' = 1..(Len(order) + 1)
      BY <3>2, LenProperties
    <3>4. {order'[k] : k \in DOMAIN order'} = {order[k] : k \in DOMAIN order} \cup {j}
      BY <1>0, <3>2, <3>3
    <3> QED
      BY <3>1, <3>2, <3>4 DEF OrderIsDone
  <2>4. CASE m[2] # "done"
    BY <1>1, <2>1, <2>2, <2>4, MoveIn
  <2> QED
    BY <2>3, <2>4
<1> QED
  BY <1>2, <1>3, <1>4 DEF Next, Quiet

(* Nothing starts early, or after the call was answered.                     *)
LEMMA StepStages ==
    ASSUME TypeOK, TypeOK', NotYet, OnlyJobs, JoinedLast, [Next]_vars
    PROVE  NotYet' /\ OnlyJobs' /\ JoinedLast'
<1>1. Jobs \subseteq Job
  BY JobFacts
<1>2. CASE Quiet
  <2>1. UNCHANGED <<call, jobs>> /\ (UNCHANGED results \/ phase # "jobs")
    BY <1>2, QuietFacts
  <2>2. NotYet' /\ OnlyJobs'
    BY <1>2, <2>1, QuietFacts DEF NotYet, OnlyJobs, Jobs, call, jobs
  <2>3. Searching' <=> Searching
    BY <2>1 DEF Searching, call
  <2>4. CASE SearchStep
    <3>1. phase # "jobs" /\ reply = "none" /\ reply' # "joined" /\ want' = want
      BY <2>4 DEF SearchStep, Ask, Headers, ReadSearch, Parse, Discard, Open, Answer,
         OwnCheck, call
    <3>2. Len(results') <= want
      <4>1. CASE UNCHANGED results
        BY <3>1, <4>1 DEF JoinedLast
      <4>2. ASSUME NEW shape \in Shape, NEW page \in Pages, Parse(shape, page)
            PROVE  Len(results') <= want
        <5>1. want \in Nat
          BY FanOutAssumption DEF TypeOK
        <5> QED
          BY <4>2, <5>1, ResultsFacts DEF Parse
      <4> QED
        BY <2>4, <4>1, <4>2 DEF SearchStep, Ask, Headers, ReadSearch, Discard
    <3> QED
      BY <2>2, <2>3, <3>1, <3>2 DEF JoinedLast
  <2>5. CASE Join
    BY <2>2, <2>3, <2>5 DEF Join, Open, Answer, JoinedLast, Jobs, call, jobs
  <2>6. CASE Refuse \/ Deadline
    BY <2>2, <2>3, <2>6 DEF Refuse, Deadline, Open, Answer, JoinedLast, Jobs, call, jobs
  <2>7. CASE UNCHANGED vars
    BY <2>2, <2>3, <2>7 DEF vars, JoinedLast, Jobs, call, jobs
  <2> QED
    BY <1>2, <2>4, <2>5, <2>6, <2>7 DEF Quiet
<1>3. CASE Push
  <2>1. Jobs' = Jobs /\ phase = "jobs" /\ reply = "none" /\ tool # "extract"
    BY <1>3 DEF Push, Open, call, Jobs
  <2> QED
    BY <1>1, <1>3, <2>1 DEF Push, NotYet, OnlyJobs, JoinedLast, Searching, call
<1>4. ASSUME NEW j \in Job, Work(j) PROVE NotYet' /\ OnlyJobs' /\ JoinedLast'
  <2>1. PICK m \in Moves : Move(j, m[1], m[2])
    BY <1>4, WorkMoves
  <2>2. Jobs' = Jobs /\ j \in Jobs /\ phase = "jobs" /\ reply = "none"
    BY <2>1 DEF Move, Open, Jobs, call
  <2>3. stage \in [Job -> JobStage] /\ m[2] # "wait"
    BY DEF TypeOK, Moves
  <2> QED
    BY <2>1, <2>2, <2>3 DEF Move, NotYet, OnlyJobs, JoinedLast, Searching, call
<1> QED
  BY <1>2, <1>3, <1>4 DEF Next, Quiet

-----------------------------------------------------------------------------
(* The inductive invariant holds in every reachable state.                   *)
THEOREM Invariance == Spec => []IInv
<1>1. IInv /\ [Next]_vars => IInv'
  <2> SUFFICES ASSUME IInv, [Next]_vars PROVE IInv'
    OBVIOUS
  <2> USE DEF IInv
  <2>1. PermitsLeft' /\ permits' \in 0..Concurrency
    BY StepPermits
  <2>2. TypeOK'
    BY <2>1, StepTypes
  <2> QED
    BY <2>1, <2>2, StepOrder, StepStages
<1> QED
  BY <1>1, InitIInv, PTL DEF Spec

(* Every variable keeps its type.                                            *)
THEOREM TypeCorrect == Spec => []TypeOK
<1>1. IInv => TypeOK
  BY DEF IInv
<1> QED
  BY <1>1, Invariance, PTL

(* However many URLs there are and in whatever order their jobs finish, at   *)
(* most `concurrency` requests are on the network.                           *)
THEOREM NetworkIsBounded == Spec => []NetworkBounded
<1>1. IInv => NetworkBounded
  <2> SUFFICES ASSUME IInv PROVE NetworkBounded
    OBVIOUS
  <2>1. /\ IsFiniteSet(In(Working)) /\ In(Network) \in SUBSET In(Working)
        /\ Cardinality(In(Network)) \in Nat /\ Cardinality(In(Working)) \in Nat
    BY InFinite, InNames DEF IInv
  <2>2. Cardinality(In(Network)) <= Cardinality(In(Working))
    BY <2>1, FS_Subset
  <2>3. permits \in 0..Concurrency /\ Concurrency \in Nat
    BY FanOutAssumption DEF IInv, TypeOK
  <2> QED
    BY <2>1, <2>2, <2>3, InNames DEF IInv, PermitsLeft, NetworkBounded
<1> QED
  BY <1>1, Invariance, PTL

(* web_extract holds at most `concurrency` bodies, parses included.          *)
THEOREM BodiesAreBounded == Spec => []BodiesBounded
<1>1. IInv => BodiesBounded
  BY InNames DEF IInv, PermitsLeft, BodiesBounded
<1> QED
  BY <1>1, Invariance, PTL

(* A joined text has one section for each URL, those that were not scraped   *)
(* included, and no more of them than the search was asked for.              *)
THEOREM OneSection == Spec => []OneSectionEach
<1>1. IInv => OneSectionEach
  <2> SUFFICES ASSUME IInv, reply = "joined"
               PROVE  /\ {order[k] : k \in DOMAIN order} = Jobs
                      /\ Len(order) + Cardinality(Listed) = Len(results)
                      /\ Searching => Len(results) <= want
    BY DEF OneSectionEach
  <2>1. In({"done"}) = Jobs
    BY DEF IInv, JoinedLast, In
  <2>2. {order[k] : k \in DOMAIN order} = Jobs /\ Len(order) = Cardinality(Jobs)
    BY <2>1 DEF IInv, OrderIsDone
  <2>3. Len(order) + Cardinality(Listed) = Len(results)
    <3>1. DOMAIN results = 1..Len(results) /\ Len(results) \in Nat
      BY JobFacts DEF IInv
    <3> DEFINE all == 1..Len(results)
    <3>2. IsFiniteSet(all) /\ Cardinality(all) = Len(results)
      BY <3>1, UpTo
    <3>3. Jobs \subseteq all /\ DOMAIN results = all
      BY <3>1 DEF Jobs
    <3> HIDE DEF all
    <3>4. IsFiniteSet(Jobs) /\ Cardinality(Jobs) \in Nat
      BY <3>2, <3>3, FS_Subset, FS_CardinalityType
    <3>5. CASE Searching
      <4>1. all \cap Jobs = Jobs
        BY <3>3
      <4>2. Cardinality(all \ Jobs) = Len(results) - Cardinality(Jobs)
        BY <3>2, <4>1, FS_Difference
      <4>3. Listed = all \ Jobs
        BY <3>3, <3>5 DEF Listed
      <4> QED
        BY <2>2, <3>1, <3>4, <4>2, <4>3
    <3>6. CASE ~Searching
      <4>1. Jobs = all
        BY <3>3, <3>6 DEF Jobs, Searching
      <4>2. Listed = {} /\ Cardinality({}) = 0
        BY <3>6, FS_EmptySet DEF Listed
      <4> QED
        BY <2>2, <3>1, <3>2, <4>1, <4>2
    <3> QED
      BY <3>5, <3>6
  <2> QED
    BY <2>2, <2>3 DEF IInv, JoinedLast
<1> QED
  BY <1>1, Invariance, PTL

-----------------------------------------------------------------------------
(* Whatever the provider, a command line from_args lets pass has the key and *)
(* the URL that the provider's own table asks for.                           *)
LEMMA ChecksCover ==
    ASSUME NEW a \in Args, ~Refused(a)
    PROVE  ~LacksKey(a) /\ ~LacksUrl(a)
BY DEF Refused, KeyMissing, UrlMissing, RequiresApiKey, NeedsUrl, LacksKey, LacksUrl,
   KeyChecked, UrlChecked, ApiKey, Args

(* No search of a server that started fails for a setting it lacks, for      *)
(* every provider and every set of command lines.                            *)
THEOREM NoConfigErrorLate == Spec => []NoLateConfigError
<1>1. Init => ~Refused(args) /\ NoLateConfigError
  BY DEF Init, NoLateConfigError
<1>2. TypeOK /\ ~Refused(args) /\ NoLateConfigError /\ [Next]_vars =>
         (~Refused(args) /\ NoLateConfigError)'
  <2> SUFFICES ASSUME TypeOK, ~Refused(args), NoLateConfigError, [Next]_vars
               PROVE  args' = args /\ reply' # "config"
    BY DEF NoLateConfigError, Refused, KeyMissing, UrlMissing, HalfTls, BadTokenFile, FromFile, HasPath
  <2>1. \A blank \in BOOLEAN : ~blank => OwnCheck(args, blank) = "none"
    BY ChecksCover, FanOutAssumption DEF TypeOK, OwnCheck
  <2>2. CASE Ask
    BY <2>1, <2>2 DEF Ask, Answer, call, NoLateConfigError
  <2>3. CASE Headers \/ ReadSearch \/ Discard
    BY <2>3 DEF Headers, ReadSearch, Parse, Discard, Answer, call, NoLateConfigError
  <2>4. CASE Refuse \/ Push \/ Join \/ Deadline
    BY <2>4 DEF Refuse, Push, Join, Deadline, Answer, call, NoLateConfigError
  <2>5. ASSUME NEW j \in Job, Work(j) PROVE args' = args /\ reply' # "config"
    BY <2>5, WorkMoves DEF Move, call, NoLateConfigError
  <2>6. CASE UNCHANGED vars
    BY <2>6 DEF vars, call, NoLateConfigError
  <2> QED
    BY <2>2, <2>3, <2>4, <2>5, <2>6 DEF Next, SearchStep
<1> QED
  BY <1>1, <1>2, TypeCorrect, PTL DEF Spec

-----------------------------------------------------------------------------
(* Both ways of bounding the network implement the slots that the browser    *)
(* pool's semaphore implements.                                              *)
Slots == INSTANCE PageSlots
    WITH Request <- Job, MaxPages <- Concurrency, holders <- OnNetwork

(* What a job's step does to the jobs on the network.                        *)
LEMMA NetworkStep ==
    ASSUME TypeOK, NEW j \in Job, Work(j)
    PROVE  \/ OnNetwork' = OnNetwork
           \/ j \in OnNetwork /\ OnNetwork' = OnNetwork \ {j}
           \/ /\ j \notin OnNetwork /\ OnNetwork' = OnNetwork \cup {j}
              /\ Pull(j) \/ Acquire(j)
<1>1. OnNetwork = In(Network) /\ OnNetwork' = In(Network)'
  BY InNames DEF OnNetwork, At, In, Network
<1>2. CASE Pull(j) \/ Acquire(j)
  <2>1. \E from \in {"new", "wait"} : Move(j, from, "send")
    BY <1>2 DEF Pull, Acquire
  <2> QED
    BY <1>1, <1>2, <2>1, MoveIn DEF Network
<1>3. CASE Respond(j) \/ SendEnd(j) \/ BodyEnd(j) \/ ParseEnd(j)
  <2>1. PICK from \in {"send", "body", "parse"}, to \in {"body", "parse", "done"} :
           Move(j, from, to) /\ (from \in Network \/ to \notin Network)
    BY <1>3 DEF Respond, SendEnd, BodyEnd, ParseEnd, FetchEnd, Network
  <2>2. CASE from \in Network /\ to \notin Network
    BY <1>1, <2>1, <2>2, MoveIn
  <2>3. CASE from \in Network <=> to \in Network
    BY <1>1, <2>1, <2>3, MoveIn
  <2> QED
    BY <2>1, <2>2, <2>3
<1> QED
  BY <1>2, <1>3 DEF Work

(* Seen through the jobs on the network, every step of every tool takes a    *)
(* free slot, gives one back, or does nothing: buffer_unordered and the      *)
(* semaphore promise the same.                                               *)
THEOREM ImplementsSlots == Spec => Slots!Safety
<1>1. Init => Slots!Init
  <2> SUFFICES ASSUME Init PROVE OnNetwork = {}
    BY DEF Slots!Init
  <2>1. TypeOK /\ \A j \in Job : stage[j] = "new"
    BY InitIInv DEF IInv, Init
  <2> QED
    BY <2>1, NoneIn, InNames DEF Network
<1>2. IInv /\ IInv' /\ [Next]_vars => [Slots!Next]_OnNetwork
  <2> SUFFICES ASSUME IInv, IInv', [Next]_vars PROVE [Slots!Next]_OnNetwork
    OBVIOUS
  <2>0. OnNetwork = In(Network) /\ OnNetwork' = In(Network)'
    BY InNames DEF OnNetwork, At, In, Network
  <2>1. CASE Quiet
    <3>1. In(Network)' = In(Network)
      BY <2>1, QuietIn DEF IInv, Network
    <3> QED
      BY <2>0, <3>1
  <2>2. CASE Push
    <3>1. In(Network)' = In(Network)
      BY <2>2, PushIn DEF IInv, Network
    <3> QED
      BY <2>0, <3>1
  <2>3. ASSUME NEW j \in Job, Work(j) PROVE [Slots!Next]_OnNetwork
    <3>1. Slots!Cardinality(OnNetwork) = Cardinality(OnNetwork)
      BY DEF Slots!Cardinality, Cardinality
    <3>2. Pull(j) \/ Acquire(j) => Cardinality(OnNetwork) < Concurrency
      <4>1. /\ IsFiniteSet(In(Working)) /\ In(Network) \in SUBSET In(Working)
            /\ Cardinality(In(Network)) \in Nat /\ Cardinality(In(Working)) \in Nat
            /\ permits \in 0..Concurrency /\ Concurrency \in Nat
        BY InFinite, InNames, FanOutAssumption DEF IInv, TypeOK
      <4>2. Cardinality(In(Network)) <= Cardinality(In(Working))
        BY <4>1, FS_Subset
      <4>3. Pull(j) => Cardinality(In(Working)) < Concurrency
        BY InNames DEF Pull
      <4>4. Acquire(j) => tool # "extract" /\ permits > 0
        BY DEF Acquire, Move, IInv, OnlyJobs
      <4> QED
        BY <2>0, <4>1, <4>2, <4>3, <4>4 DEF IInv, PermitsLeft
    <3> QED
      BY <2>3, <3>1, <3>2, NetworkStep DEF IInv, Slots!Next, Slots!Take, Slots!Give
  <2> QED
    BY <2>1, <2>2, <2>3 DEF Next, Quiet
<1> QED
  BY <1>1, <1>2, Invariance, PTL DEF Spec, Slots!Safety
=============================================================================
