------------------------- MODULE StreamSetsJobProofs -------------------------
(***************************************************************************)
(* Proofs about StreamSetsJob, for any callers and any number of polls.    *)
(***************************************************************************)
EXTENDS StreamSetsJob, FiniteSetTheorems, TLAPS

Stages == {"finding", "found", "checking", "starting", "activating", "monitoring",
           "returned", "panicked"}

\* As much of the types as the argument needs; that each caller starts one run
\* at most is not part of it.
Shapes ==
    /\ started \in Nat
    /\ own \in [Callers -> Nat]
    /\ pc \in [Callers -> Stages]
    /\ answer \in [Callers -> Answers]

EndedWell(c) == own[c] # 0 /\ \E r \in own[c]..started : r \in good

OwnInv ==
    \A c \in Callers :
        /\ own[c] <= started
        /\ pc[c] \in {"activating", "monitoring"} => own[c] # 0
        /\ answer[c] = "success" => pc[c] = "returned"

\* A caller is let into monitoring by a status that only a run under way has: a
\* good color at rest is then that of its own run or of a later one.
ColorInv ==
    \A c \in Callers :
        /\ pc[c] = "monitoring"
        /\ status \notin {"ACTIVATING", "ACTIVE", "DEACTIVATING"}
        /\ color = "good"
        => EndedWell(c)

IInv == Shapes /\ OwnInv /\ ColorInv /\ SuccessIsReal

-----------------------------------------------------------------------------

LEMMA InitHolds == Init => IInv
PROOF
  <1> SUFFICES ASSUME Init PROVE IInv
    OBVIOUS
  <1>1. Shapes
    BY DEF Init, Shapes, Stages, Answers
  <1>2. OwnInv /\ ColorInv /\ SuccessIsReal
    BY DEF Init, OwnInv, ColorInv, SuccessIsReal
  <1> QED
    BY <1>1, <1>2 DEF IInv

\* The hub's steps: the callers stay where they are, and what has ended well
\* stays so.
LEMMA HubStep ==
    ASSUME IInv, Activate \/ Activated \/ Ended \/ Acknowledged
    PROVE  IInv'
PROOF
  <1> USE DEF IInv, Becomes
  <1>1. UNCHANGED <<pc, answer, own, started>> /\ (good' = good \/ Ended)
    BY DEF Activate, Activated, Ended, Acknowledged
  <1>2. \A c \in Callers : EndedWell(c) => EndedWell(c)'
    <2>1. CASE good' = good
      BY <1>1, <2>1 DEF EndedWell
    <2>2. CASE Ended
      <3>1. good' = good \/ good' = (good \cup {started}) \ {0}
        BY <2>2 DEF Ended
      <3> QED
        BY <1>1, <2>1, <3>1 DEF EndedWell, Shapes
    <2> QED
      BY <1>1, <2>1, <2>2
  <1>3. Shapes' /\ OwnInv' /\ SuccessIsReal'
    <2>1. Shapes' /\ OwnInv'
      BY <1>1 DEF Shapes, OwnInv
    <2>2. SuccessIsReal'
      BY <1>1, <1>2 DEF SuccessIsReal, EndedWell
    <2> QED
      BY <2>1, <2>2
  <1>4. CASE Activate \/ Activated \/ Acknowledged
    <2>1. ColorInv'
      BY <1>1, <1>2, <1>4 DEF Activate, Activated, Acknowledged, ColorInv, finalStatuses,
                              ActivationErrors
    <2> QED
      BY <1>3, <2>1
  <1>5. CASE Ended
    <2>1. ASSUME NEW c \in Callers, pc'[c] = "monitoring", color' = "good",
                 status' \notin {"ACTIVATING", "ACTIVE", "DEACTIVATING"}
          PROVE  EndedWell(c)'
      <3>1. own[c] # 0 /\ own[c] <= started /\ own[c] \in Nat /\ started \in Nat
        BY <1>1, <2>1 DEF OwnInv, Shapes
      <3>2. started \in good'
        BY <1>5, <2>1, <3>1 DEF Ended
      <3> QED
        BY <1>1, <3>1, <3>2 DEF EndedWell
    <2> QED
      BY <1>3, <2>1 DEF ColorInv
  <1> QED
    BY <1>4, <1>5

\* A caller's step that starts nothing and moves no caller into monitoring.
LEMMA QuietStep ==
    ASSUME IInv, NEW c \in Callers, pc[c] # "returned", UNCHANGED <<hubVars, own>>,
           NEW to \in Stages \ {"activating", "monitoring"}, NEW what \in Answers \ {"success"},
           \/ pc' = [pc EXCEPT ![c] = to] /\ UNCHANGED answer
           \/ pc' = [pc EXCEPT ![c] = to] /\ answer' = [answer EXCEPT ![c] = what]
           \/ UNCHANGED <<pc, answer>>
    PROVE  IInv'
PROOF
  <1> USE DEF IInv, hubVars
  <1>1. Shapes'
    BY DEF Shapes
  <1>2. \A d \in Callers :
          /\ pc'[d] \in {"activating", "monitoring"} => pc'[d] = pc[d]
          /\ pc[d] = "returned" => pc'[d] = "returned"
    BY DEF Shapes
  <1>3. \A d \in Callers : answer'[d] = "success" => answer[d] = "success"
    BY DEF Shapes
  <1>4. OwnInv' /\ ColorInv'
    BY <1>2, <1>3 DEF OwnInv, ColorInv, EndedWell
  <1>5. SuccessIsReal'
    BY <1>3 DEF SuccessIsReal
  <1> QED
    BY <1>1, <1>4, <1>5

LEMMA StartStep ==
    ASSUME IInv, NEW c \in Callers, StartJob(c)
    PROVE  IInv'
PROOF
  <1> USE DEF IInv
  <1>1. CASE UNCHANGED <<pending, started, own>>
    <2>1. /\ Return(c, "refused") /\ UNCHANGED <<hubVars, own>>
          /\ pc[c] # "returned"
      BY <1>1 DEF StartJob, hubVars, Shapes
    <2>2. "returned" \in Stages \ {"activating", "monitoring"}
          /\ "refused" \in Answers \ {"success"}
      BY DEF Stages, Answers
    <2> QED
      BY <2>1, <2>2, QuietStep DEF Return
  <1>2. CASE started' = started + 1 /\ own' = [own EXCEPT ![c] = started + 1]
    <2>1. /\ UNCHANGED <<status, color, good>>
          /\ \A d \in Callers : d # c => own'[d] = own[d] /\ pc'[d] = pc[d]
          /\ \A d \in Callers : d # c => answer'[d] = answer[d]
          /\ own'[c] = started + 1
          /\ pc'[c] \in {"activating", "returned"}
          /\ answer'[c] # "success"
      <3>1. /\ pc[c] = "starting" /\ answer[c] # "success"
        BY DEF StartJob, OwnInv
      <3>2. /\ UNCHANGED <<status, color, good>>
            /\ \/ pc' = [pc EXCEPT ![c] = "activating"] /\ answer' = answer
               \/ Return(c, "refused")
        BY <1>2 DEF StartJob
      <3> QED
        BY <1>2, <3>1, <3>2 DEF Return, Shapes
    <2>2. Shapes'
      <3>1. pc' \in [Callers -> Stages] /\ answer' \in [Callers -> Answers]
        BY <1>2 DEF StartJob, Return, Shapes, Stages, Answers
      <3>2. started' \in Nat
        BY <1>2 DEF Shapes
      <3>3. own' \in [Callers -> Nat]
        BY <1>2, <3>2 DEF Shapes
      <3> QED
        BY <3>1, <3>2, <3>3 DEF Shapes
    <2>3. OwnInv'
      <3>1. ASSUME NEW d \in Callers PROVE own'[d] <= started'
        <4>1. started \in Nat /\ own[d] \in Nat /\ own[d] <= started /\ started' = started + 1
          BY <1>2 DEF OwnInv, Shapes
        <4>2. own'[d] = own[d] \/ own'[d] = started + 1
          BY <2>1
        <4> QED
          BY <4>1, <4>2
      <3>2. ASSUME NEW d \in Callers, d # c
            PROVE  /\ pc'[d] \in {"activating", "monitoring"} => own'[d] # 0
                   /\ answer'[d] = "success" => pc'[d] = "returned"
        BY <2>1, <3>2 DEF OwnInv
      <3>3. own'[c] # 0
        BY <2>1 DEF Shapes
      <3> QED
        BY <2>1, <3>1, <3>2, <3>3 DEF OwnInv
    <2>4. \A d \in Callers : d # c => (EndedWell(d) => EndedWell(d)')
      BY <1>2, <2>1 DEF EndedWell, Shapes
    <2>5. ColorInv'
      BY <2>1, <2>4 DEF ColorInv
    <2>6. SuccessIsReal'
      BY <2>1, <2>4 DEF SuccessIsReal, EndedWell
    <2> QED
      BY <2>2, <2>3, <2>5, <2>6
  <1> QED
    BY <1>1, <1>2 DEF StartJob

LEMMA WaitStep ==
    ASSUME IInv, NEW c \in Callers, WaitForJobActive(c)
    PROVE  IInv'
PROOF
  <1> USE DEF IInv
  <1>1. /\ pc[c] = "activating" /\ UNCHANGED <<hubVars, own>>
        /\ \/ /\ status \in ActiveStatuses
              /\ pc' = [pc EXCEPT ![c] = "monitoring"] /\ UNCHANGED answer
           \/ \E what \in {"activation", "timeout"} : Return(c, what)
           \/ UNCHANGED <<pc, answer>>
    BY DEF WaitForJobActive
  <1>2. CASE status \in ActiveStatuses /\ pc' = [pc EXCEPT ![c] = "monitoring"] /\ UNCHANGED answer
    <2>1. Shapes'
      BY <1>1, <1>2 DEF Shapes, Stages, hubVars
    <2>2. OwnInv'
      BY <1>1, <1>2 DEF OwnInv, Shapes, hubVars
    <2>3. ColorInv'
      BY <1>1, <1>2 DEF ColorInv, ActiveStatuses, hubVars
    <2>4. SuccessIsReal'
      BY <1>1, <1>2 DEF SuccessIsReal, hubVars
    <2> QED
      BY <2>1, <2>2, <2>3, <2>4
  <1>3. CASE \E what \in {"activation", "timeout"} : Return(c, what)
    <2>1. PICK what \in {"activation", "timeout"} : Return(c, what)
      BY <1>3
    <2>2. "returned" \in Stages \ {"activating", "monitoring"} /\ what \in Answers \ {"success"}
      BY DEF Stages, Answers
    <2> QED
      BY <1>1, <2>1, <2>2, QuietStep DEF Return
  <1>4. CASE UNCHANGED <<pc, answer>>
    <2>1. "returned" \in Stages \ {"activating", "monitoring"} /\ "timeout" \in Answers \ {"success"}
      BY DEF Stages, Answers
    <2> QED
      BY <1>1, <1>4, <2>1, QuietStep
  <1> QED
    BY <1>1, <1>2, <1>3, <1>4

LEMMA MonitorStep ==
    ASSUME IInv, NEW c \in Callers, MonitorJobCompletion(c)
    PROVE  IInv'
PROOF
  <1> USE DEF IInv
  <1>1. /\ pc[c] = "monitoring" /\ UNCHANGED <<hubVars, own>>
        /\ \/ status \in finalStatuses /\ Return(c, Verdict)
           \/ Return(c, "timeout")
           \/ pc' = [pc EXCEPT ![c] = "panicked"] /\ UNCHANGED answer
           \/ UNCHANGED <<pc, answer>>
    BY DEF MonitorJobCompletion, TimedOut
  <1>2. /\ {"returned", "panicked"} \subseteq Stages \ {"activating", "monitoring"}
        /\ {"timeout", "failure", "unexpected"} \subseteq Answers \ {"success"}
    BY DEF Stages, Answers
  <1>3. CASE status \in finalStatuses /\ Return(c, Verdict) /\ Verdict = "success"
    <2>1. status = "INACTIVE" /\ color = "good"
      BY <1>3 DEF Verdict
    <2>2. EndedWell(c)
      BY <1>1, <2>1 DEF ColorInv
    <2>3. Shapes'
      BY <1>1, <1>3 DEF Return, Shapes, Stages, Answers, hubVars
    <2>4. /\ \A d \in Callers : d # c => pc'[d] = pc[d] /\ answer'[d] = answer[d]
          /\ pc'[c] = "returned"
      BY <1>3 DEF Return, Shapes
    <2>5. OwnInv' /\ ColorInv'
      BY <1>1, <2>4 DEF OwnInv, ColorInv, EndedWell, hubVars
    <2>6. SuccessIsReal'
      BY <1>1, <2>2, <2>4 DEF SuccessIsReal, EndedWell, hubVars
    <2> QED
      BY <2>3, <2>5, <2>6
  <1>4. ASSUME NEW what \in {"timeout", "failure", "unexpected"}, Return(c, what) PROVE IInv'
    <2>1. what \in Answers \ {"success"}
      BY <1>2
    <2> QED
      BY <1>1, <1>2, <1>4, <2>1, QuietStep DEF Return
  <1>5. CASE pc' = [pc EXCEPT ![c] = "panicked"] /\ UNCHANGED answer
    BY <1>1, <1>2, <1>5, QuietStep
  <1>6. CASE UNCHANGED <<pc, answer>>
    BY <1>1, <1>2, <1>6, QuietStep
  <1>7. Verdict \in {"success", "failure", "unexpected"}
    BY DEF Verdict
  <1> QED
    BY <1>1, <1>3, <1>4, <1>5, <1>6, <1>7

LEMMA AskStep ==
    ASSUME IInv, NEW c \in Callers, FindJobByName(c) \/ GetJob(c) \/ CheckStatus(c)
    PROVE  IInv'
PROOF
  <1>1. /\ pc[c] # "returned" /\ UNCHANGED <<hubVars, own>>
        /\ \/ /\ \E next \in {"found", "checking", "starting"} : pc' = [pc EXCEPT ![c] = next]
              /\ UNCHANGED answer
           \/ Return(c, "refused")
    BY DEF FindJobByName, GetJob, CheckStatus, Ask
  <1>2. /\ {"returned", "found", "checking", "starting"} \subseteq Stages \ {"activating", "monitoring"}
        /\ "refused" \in Answers \ {"success"}
    BY DEF Stages, Answers
  <1>3. CASE Return(c, "refused")
    BY <1>1, <1>2, <1>3, QuietStep DEF Return
  <1>4. ASSUME NEW next \in {"found", "checking", "starting"}, pc' = [pc EXCEPT ![c] = next],
               UNCHANGED answer
        PROVE  IInv'
    <2>1. next \in Stages \ {"activating", "monitoring"}
      BY <1>2
    <2> QED
      BY <1>1, <1>2, <1>4, <2>1, QuietStep
  <1> QED
    BY <1>1, <1>3, <1>4

\* A success that RunJob reports is that of its own run or of a later one.
THEOREM SuccessCorrect == Spec => []SuccessIsReal
PROOF
  <1>1. IInv /\ [Next]_vars => IInv'
    <2> SUFFICES ASSUME IInv, [Next]_vars PROVE IInv'
      OBVIOUS
    <2>1. CASE UNCHANGED vars
      <3>1. UNCHANGED <<hubVars, pc, answer, own>>
        BY <2>1 DEF vars
      <3> QED
        BY <3>1 DEF IInv, Shapes, OwnInv, ColorInv, SuccessIsReal, EndedWell, hubVars
    <2>2. ASSUME NEW c \in Callers, RunJob(c) PROVE IInv'
      BY <2>2, AskStep, StartStep, WaitStep, MonitorStep DEF RunJob
    <2> QED
      BY <2>1, <2>2, HubStep DEF Next
  <1>2. IInv => SuccessIsReal
    BY DEF IInv
  <1> QED
    BY InitHolds, <1>1, <1>2, PTL DEF Spec

-----------------------------------------------------------------------------
(* Type correctness.  The runs are counted by their callers, each of whom  *)
(* has one at most, and a loop is left with its last poll.                 *)

Before == {"finding", "found", "checking", "starting"}

Starters == {c \in Callers : own[c] # 0}

\* The types without those that rest on a count.
PlainTypes ==
    /\ status \in Statuses /\ color \in Colors
    /\ pending \in BOOLEAN
    /\ pc \in [Callers -> Stages]
    /\ answer \in [Callers -> Answers]
    /\ known \in [Callers -> BOOLEAN]

StartInv ==
    /\ started = Cardinality(Starters)
    /\ own \in [Callers -> Nat]
    /\ good \subseteq 1..started
    /\ \A c \in Callers : own[c] <= started /\ (pc[c] \in Before => own[c] = 0)

PollInv ==
    /\ polls \in [Callers -> Nat]
    /\ \A c \in Callers :
         /\ polls[c] <= ActivePolls + CompletionPolls
         /\ pc[c] \in Before => polls[c] = 0
         /\ pc[c] = "activating" => polls[c] < ActivePolls
         /\ pc[c] = "monitoring" => polls[c] < CompletionPolls

TypeInv == PlainTypes /\ StartInv /\ PollInv

LEMMA StartersFacts ==
    /\ IsFiniteSet(Starters)
    /\ Cardinality(Starters) \in 0..Cardinality(Callers)
PROOF
  <1>1. Starters \subseteq Callers
    BY DEF Starters
  <1>2. IsFiniteSet(Starters) /\ Cardinality(Starters) <= Cardinality(Callers)
    BY <1>1, CallersAssumption, FS_Subset
  <1> QED
    BY <1>2, CallersAssumption, FS_CardinalityType

LEMMA TypesFollow == TypeInv => TypeOK
PROOF
  <1> SUFFICES ASSUME TypeInv PROVE TypeOK
    OBVIOUS
  <1> USE DEF TypeInv
  <1>1. started \in 0..Cardinality(Callers) /\ Cardinality(Callers) \in Nat
    BY StartersFacts, CallersAssumption, FS_CardinalityType DEF StartInv
  <1>2. good \subseteq RunIds /\ own \in [Callers -> {0} \cup RunIds]
    BY <1>1 DEF StartInv, RunIds
  <1>3. polls \in [Callers -> 0..(ActivePolls + CompletionPolls)]
    BY PollsAssumption DEF PollInv
  <1> QED
    BY <1>1, <1>2, <1>3 DEF TypeOK, PlainTypes, Stages

LEMMA TypesBegin == Init => TypeInv
PROOF
  <1> SUFFICES ASSUME Init PROVE TypeInv
    OBVIOUS
  <1>1. PlainTypes
    BY DEF Init, PlainTypes, Stages, Answers, Statuses, finalStatuses
  <1>2. StartInv
    <2>1. Starters = {}
      BY DEF Init, Starters
    <2> QED
      BY <2>1, FS_EmptySet DEF Init, StartInv
  <1>3. PollInv
    BY PollsAssumption DEF Init, PollInv
  <1> QED
    BY <1>1, <1>2, <1>3 DEF TypeInv

LEMMA HubTypes ==
    ASSUME TypeInv, Activate \/ Activated \/ Ended \/ Acknowledged
    PROVE  TypeInv'
PROOF
  <1> USE DEF TypeInv
  <1>1. UNCHANGED <<pc, answer, own, polls, known, started>>
    BY DEF Activate, Activated, Ended, Acknowledged, Becomes
  <1>2. PlainTypes'
    BY <1>1 DEF PlainTypes, Activate, Activated, Ended, Acknowledged, Becomes, Statuses,
                finalStatuses, ActivationErrors, Colors
  <1>3. good' \subseteq 1..started
    <2>1. started \in Nat
      BY StartersFacts DEF StartInv
    <2>2. good' = good \/ good' = (good \cup {started}) \ {0}
      BY DEF Activate, Activated, Ended, Acknowledged
    <2>3. good \subseteq 1..started
      BY DEF StartInv
    <2>4. started # 0 => started \in 1..started
      BY <2>1
    <2> QED
      BY <2>2, <2>3, <2>4
  <1>4. StartInv' /\ PollInv'
    BY <1>1, <1>3 DEF StartInv, PollInv, Starters
  <1> QED
    BY <1>2, <1>4

LEMMA NoPolls ==
    0 \in Nat /\ 0 <= ActivePolls + CompletionPolls /\ 0 < ActivePolls /\ 0 < CompletionPolls
BY PollsAssumption

\* A caller's step that starts nothing, goes no way back, and counts a poll only
\* in a loop.
LEMMA CallerTypes ==
    ASSUME TypeInv, NEW c \in Callers, UNCHANGED <<hubVars, own>>,
           known' \in [Callers -> BOOLEAN],
           NEW to \in Stages, pc' = [pc EXCEPT ![c] = to],
           to \in Before => pc[c] \in Before,
           NEW what \in Answers, answer' = answer \/ answer' = [answer EXCEPT ![c] = what],
           NEW n \in Nat, polls' = [polls EXCEPT ![c] = n],
           n <= ActivePolls + CompletionPolls,
           to \in Before => n = 0,
           to = "activating" => n < ActivePolls,
           to = "monitoring" => n < CompletionPolls
    PROVE  TypeInv'
PROOF
  <1> USE DEF TypeInv, hubVars
  <1>1. PlainTypes'
    BY DEF PlainTypes
  <1>2. /\ pc'[c] = to /\ polls'[c] = n
        /\ \A d \in Callers \ {c} : pc'[d] = pc[d] /\ polls'[d] = polls[d]
    BY DEF PlainTypes, PollInv
  <1>3. StartInv'
    <2>1. Starters' = Starters
      BY DEF Starters
    <2>2. ASSUME NEW d \in Callers, pc'[d] \in Before PROVE own[d] = 0
      BY <1>2, <2>2 DEF StartInv
    <2> QED
      BY <2>1, <2>2 DEF StartInv
  <1>4. PollInv'
    <2>1. polls' \in [Callers -> Nat]
      BY DEF PollInv
    <2> QED
      BY <1>2, <2>1 DEF PollInv
  <1> QED
    BY <1>1, <1>3, <1>4

\* One who leaves by an answer.
LEMMA LeaveTypes ==
    ASSUME TypeInv, NEW c \in Callers, UNCHANGED <<hubVars, own, polls, known>>,
           NEW what \in Answers, Return(c, what)
    PROVE  TypeInv'
PROOF
  <1>1. "returned" \in Stages /\ "returned" \notin Before
    BY DEF Stages, Before
  <1>2. polls' = [polls EXCEPT ![c] = polls[c]] /\ polls[c] \in Nat
    BY DEF TypeInv, PollInv
  <1> QED
    BY <1>1, <1>2, CallerTypes DEF Return, TypeInv, PlainTypes, PollInv

LEMMA AskTypes ==
    ASSUME TypeInv, NEW c \in Callers, FindJobByName(c) \/ GetJob(c) \/ CheckStatus(c)
    PROVE  TypeInv'
PROOF
  <1>1. /\ pc[c] \in Before /\ UNCHANGED <<hubVars, own, polls, known>>
        /\ \/ \E next \in {"found", "checking", "starting"} :
                  pc' = [pc EXCEPT ![c] = next] /\ UNCHANGED answer
           \/ Return(c, "refused")
    BY DEF FindJobByName, GetJob, CheckStatus, Ask, Before
  <1>2. CASE Return(c, "refused")
    BY <1>1, <1>2, LeaveTypes DEF Answers
  <1>3. ASSUME NEW next \in {"found", "checking", "starting"},
               pc' = [pc EXCEPT ![c] = next], UNCHANGED answer
        PROVE  TypeInv'
    <2>1. next \in Before /\ next \in Stages
      BY DEF Before, Stages
    <2>2. polls' = [polls EXCEPT ![c] = 0] /\ known' \in [Callers -> BOOLEAN]
      BY <1>1 DEF TypeInv, PollInv, PlainTypes
    <2>3. "none" \in Answers /\ next \notin {"activating", "monitoring"}
      BY DEF Answers
    <2> QED
      BY <1>1, <1>3, <2>1, <2>2, <2>3, CallerTypes, NoPolls
  <1> QED
    BY <1>1, <1>2, <1>3

LEMMA StartTypes ==
    ASSUME TypeInv, NEW c \in Callers, StartJob(c)
    PROVE  TypeInv'
PROOF
  <1>1. CASE UNCHANGED <<pending, started, own>>
    <2>1. Return(c, "refused") /\ UNCHANGED <<hubVars, own, polls, known>>
      <3>1. started \in Nat
        BY StartersFacts DEF TypeInv, StartInv
      <3> QED
        BY <1>1, <3>1 DEF StartJob, hubVars
    <2> QED
      BY <2>1, LeaveTypes DEF Answers
  <1>2. CASE started' = started + 1 /\ own' = [own EXCEPT ![c] = started + 1]
    <2> USE DEF TypeInv
    <2>1. /\ pc[c] = "starting" /\ pending' \in BOOLEAN
          /\ UNCHANGED <<status, color, good, polls, known>>
          /\ \E to \in {"activating", "returned"} : pc' = [pc EXCEPT ![c] = to]
          /\ answer' = answer \/ answer' = [answer EXCEPT ![c] = "refused"]
      BY DEF StartJob, Return, PlainTypes
    <2>2. PlainTypes'
      BY <2>1 DEF PlainTypes, Stages, Answers
    <2>3. PollInv'
      BY <2>1, PollsAssumption DEF PollInv, PlainTypes, Before
    <2>4. own[c] = 0 /\ started \in Nat /\ own \in [Callers -> Nat]
      BY <2>1, StartersFacts DEF StartInv, Before
    <2>5. started' = Cardinality(Starters')
      <3>1. c \notin Starters /\ Starters' = Starters \cup {c}
        BY <1>2, <2>4 DEF Starters
      <3> QED
        BY <1>2, <3>1, StartersFacts, FS_AddElement DEF StartInv
    <2>6. own' \in [Callers -> Nat]
      BY <1>2, <2>4
    <2>7. good' \subseteq 1..started'
      BY <1>2, <2>1, <2>4 DEF StartInv
    <2>8. ASSUME NEW d \in Callers
          PROVE  own'[d] <= started' /\ (pc'[d] \in Before => own'[d] = 0)
      <3>1. CASE d = c
        BY <1>2, <2>1, <2>4, <3>1 DEF Before, PlainTypes
      <3>2. CASE d # c
        <4>1. own'[d] = own[d] /\ pc'[d] = pc[d] /\ own[d] \in Nat
          BY <1>2, <2>1, <2>4, <3>2 DEF PlainTypes
        <4> QED
          BY <1>2, <2>4, <4>1 DEF StartInv
      <3> QED
        BY <3>1, <3>2
    <2> QED
      BY <2>2, <2>3, <2>5, <2>6, <2>7, <2>8 DEF StartInv
  <1> QED
    BY <1>1, <1>2 DEF StartJob

\* A poll that is not the last one of its loop, or is, in either loop.
LEMMA CountTypes ==
    ASSUME TypeInv, NEW c \in Callers, UNCHANGED <<hubVars, own>>,
           known' \in [Callers -> BOOLEAN], NEW failed, polls' = Counted(c, failed),
           NEW limit, \/ pc[c] = "activating" /\ limit = ActivePolls
                      \/ pc[c] = "monitoring" /\ limit = CompletionPolls,
           \/ LastPoll(c, limit) /\ Return(c, "timeout")
           \/ /\ LastPoll(c, limit)
              /\ pc' = [pc EXCEPT ![c] = "panicked"] /\ UNCHANGED answer
           \/ ~LastPoll(c, limit) /\ UNCHANGED <<pc, answer>>
    PROVE  TypeInv'
PROOF
  <1> DEFINE n == polls[c] + 1
  <1>1. /\ polls' = [polls EXCEPT ![c] = n] /\ n \in Nat
        /\ n <= ActivePolls + CompletionPolls /\ n <= limit
    BY PollsAssumption DEF TypeInv, PollInv, Counted
  <1>2. {"returned", "panicked"} \subseteq Stages \ (Before \cup {"activating", "monitoring"})
        /\ "timeout" \in Answers
    BY DEF Stages, Before, Answers
  <1> HIDE DEF n
  <1>3. CASE LastPoll(c, limit) /\ Return(c, "timeout")
    BY <1>1, <1>2, <1>3, CallerTypes DEF Return
  <1>4. CASE pc' = [pc EXCEPT ![c] = "panicked"] /\ UNCHANGED answer
    BY <1>1, <1>2, <1>4, CallerTypes
  <1>5. CASE ~LastPoll(c, limit) /\ UNCHANGED <<pc, answer>>
    <2>1. pc' = [pc EXCEPT ![c] = pc[c]] /\ pc[c] \in Stages
      BY <1>5 DEF TypeInv, PlainTypes
    <2>2. n < limit
      BY <1>1, <1>5, PollsAssumption DEF LastPoll, n
    <2>3. /\ pc[c] \notin Before
          /\ pc[c] = "activating" => n < ActivePolls
          /\ pc[c] = "monitoring" => n < CompletionPolls
      BY <2>2 DEF Before
    <2> QED
      BY <1>1, <1>2, <1>5, <2>1, <2>3, CallerTypes
  <1> QED
    BY <1>3, <1>4, <1>5

LEMMA WaitTypes ==
    ASSUME TypeInv, NEW c \in Callers, WaitForJobActive(c)
    PROVE  TypeInv'
PROOF
  <1>1. pc[c] = "activating" /\ UNCHANGED <<hubVars, own, known>>
        /\ known' \in [Callers -> BOOLEAN]
    BY DEF WaitForJobActive, TypeInv, PlainTypes
  <1>2. CASE /\ pc' = [pc EXCEPT ![c] = "monitoring"] /\ UNCHANGED answer
             /\ polls' = [polls EXCEPT ![c] = 0]
    <2>1. "monitoring" \in Stages \ (Before \cup {"activating"}) /\ "none" \in Answers
      BY DEF Stages, Before, Answers
    <2> QED
      BY <1>1, <1>2, <2>1, CallerTypes, NoPolls
  <1>3. CASE Return(c, "activation") /\ UNCHANGED polls
    BY <1>1, <1>3, LeaveTypes DEF Answers
  <1>4. ASSUME NEW failed, polls' = Counted(c, failed),
               IF LastPoll(c, ActivePolls) THEN Return(c, "timeout") ELSE UNCHANGED <<pc, answer>>
        PROVE  TypeInv'
    BY <1>1, <1>4, CountTypes
  <1> QED
    BY <1>2, <1>3, <1>4 DEF WaitForJobActive

LEMMA MonitorTypes ==
    ASSUME TypeInv, NEW c \in Callers, MonitorJobCompletion(c)
    PROVE  TypeInv'
PROOF
  <1>1. pc[c] = "monitoring" /\ UNCHANGED <<hubVars, own>>
    BY DEF MonitorJobCompletion
  <1>2. CASE Return(c, Verdict) /\ UNCHANGED <<polls, known>>
    <2>1. Verdict \in Answers
      BY DEF Verdict, Answers
    <2> QED
      BY <1>1, <1>2, <2>1, LeaveTypes
  <1>3. ASSUME NEW failed \in BOOLEAN, known' = [known EXCEPT ![c] = @ \/ ~failed],
               polls' = Counted(c, failed),
               IF LastPoll(c, CompletionPolls) THEN TimedOut(c, known'[c])
                                               ELSE UNCHANGED <<pc, answer>>
        PROVE  TypeInv'
    <2>1. known' \in [Callers -> BOOLEAN]
      BY <1>3 DEF TypeInv, PlainTypes
    <2>2. TimedOut(c, known'[c]) =>
            \/ Return(c, "timeout")
            \/ pc' = [pc EXCEPT ![c] = "panicked"] /\ UNCHANGED answer
      BY DEF TimedOut
    <2> QED
      BY <1>1, <1>3, <2>1, <2>2, CountTypes
  <1> QED
    BY <1>2, <1>3 DEF MonitorJobCompletion

\* Every variable keeps its type: there is one remote run per caller at most, and
\* no loop polls beyond its limit.
THEOREM TypeCorrect == Spec => []TypeOK
PROOF
  <1>1. TypeInv /\ [Next]_vars => TypeInv'
    <2> SUFFICES ASSUME TypeInv, [Next]_vars PROVE TypeInv'
      OBVIOUS
    <2>1. CASE UNCHANGED vars
      BY <2>1 DEF vars, hubVars, TypeInv, PlainTypes, StartInv, PollInv, Starters
    <2>2. ASSUME NEW c \in Callers, RunJob(c) PROVE TypeInv'
      BY <2>2, AskTypes, StartTypes, WaitTypes, MonitorTypes DEF RunJob
    <2> QED
      BY <2>1, <2>2, HubTypes DEF Next
  <1> QED
    BY <1>1, TypesBegin, TypesFollow, PTL DEF Spec

=============================================================================
