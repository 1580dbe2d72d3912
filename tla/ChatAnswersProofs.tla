------------------------- MODULE ChatAnswersProofs -------------------------
(***************************************************************************)
(* Theorems about ChatAnswers for every set of answers, every number of     *)
(* candidates, tokens and LLM threads, and whether or not the heartbeat of  *)
(* a frame waits for the database.                                          *)
(***************************************************************************)
EXTENDS ChatAnswers, FiniteSetTheorems, TLAPS

-----------------------------------------------------------------------------
(* The inductive invariant. *)

\* Once a generator is here it calls no provider any more.
Ending == {"unwinding", "closing", "over", "recorded"}

\* TypeOK, without the bound of the semaphore.
Typed ==
    /\ free \in Nat
    /\ llm_lease \in [Answers -> {"none", "held", "used"}]
    /\ gen \in [Answers -> {"idle", "choosing", "preparing", "streaming", "answered"}
                           \cup Ending]
    /\ call \in [Answers -> 0..Candidates + 1]
    /\ stream \in [Answers -> {"none", "open", "closing", "closed"}]
    /\ task \in [Answers -> {"none", "created", "waiting"} \cup Finished]
    /\ job \in [Answers -> {"none", "returned", "raised", "dropped"} \cup Working]
    /\ queue \in [Answers -> 0..MaxTokens]
    /\ shown \in [Answers -> SUBSET (1..Candidates)]
    /\ completed \in [Answers -> BOOLEAN]
    /\ interrupted \in [Answers -> BOOLEAN]
    /\ doneEvent \in [Answers -> {"none", "done", "error"}]
    /\ left \in [Answers -> BOOLEAN]
    /\ saved \in [Answers -> {"none", "done", "interrupted"}]

\* The reservation, the task of the call and its work item go with the generator: a call
\* that was cancelled leaves its work item behind only in an answer that calls no more.
CallFits(a) ==
    /\ llm_lease[a] = "none" <=> gen[a] = "idle"
    /\ gen[a] \in {"over", "recorded"} => llm_lease[a] = "used"
    /\ gen[a] = "streaming" <=> stream[a] = "open"
    /\ stream[a] = "closing" => gen[a] \in Ending
    /\ stream[a] \in {"none", "closed"} => task[a] \in {"none"} \cup Finished
    /\ task[a] \in {"none", "created"} => job[a] = "none"
    /\ task[a] = "waiting" => job[a] \in {"returned", "raised"} \cup Working
    /\ task[a] = "done" => job[a] = "returned"
    /\ task[a] = "failed" => job[a] \in {"none", "raised"}
    /\ task[a] = "cancelled" => gen[a] \in Ending

\* What the client has seen is of the call in progress, and nothing before it starts.
VoiceFits(a) ==
    /\ gen[a] \in {"preparing", "streaming"} => call[a] \in Calls(a) \cup {0}
    /\ gen[a] \in {"idle", "choosing", "preparing"} => shown[a] = {}
    /\ shown[a] \subseteq {call[a]}

\* How the stream may end: the done frame follows the last token of a call that returned,
\* and a client that left saw no frame that ends the stream.
EndFits(a) ==
    /\ \/ gen[a] = "answered"
       \/ doneEvent[a] = "done"
       => stream[a] = "closed" /\ task[a] = "done" /\ queue[a] = 0
    /\ doneEvent[a] # "none" => gen[a] \in Ending \ {"unwinding"} /\ ~left[a]
    /\ left[a] => gen[a] \in Ending /\ interrupted[a] = ~completed[a]
    /\ gen[a] = "recorded" /\ left[a] /\ ~completed[a] => saved[a] = "interrupted"

AnswersInv ==
    /\ Typed
    /\ \A a \in Answers : CallFits(a) /\ VoiceFits(a) /\ EndFits(a)

\* The semaphore counts finite sets of answers.
SlotsInv ==
    /\ IsFiniteSet(Held) /\ IsFiniteSet(Busy) /\ IsFiniteSet(Dropped)
    /\ SlotsAccounted

ChatInv == AnswersInv /\ SlotsInv

-----------------------------------------------------------------------------
(* One answer moves, the others rest. *)

Move(a) ==
    Reserve(a) \/ Generator(a) \/ StreamCloses(a) \/ Disconnect(a) \/ Task(a) \/ Provider(a)

\* The actions an answer can take, one by one.
LEMMA Moves ==
    ASSUME NEW a \in Answers, Move(a), NEW P,
           Reserve(a) => P,
           Submit(a) => P,
           NoCapacity(a) => P,
           JobStarts(a) => P,
           JobToken(a) => P,
           JobEnds(a) => P,
           TaskEnds(a) => P,
           Skip(a) => P,
           Choose(a) => P,
           Exhausted(a) => P,
           PrepareFails(a) => P,
           OpenStream(a) => P,
           TakeToken(a) => P,
           StreamFails(a) => P,
           Ranked(a) => P,
           StreamDone(a) => P,
           DoneFrame(a) => P,
           Disconnect(a) => P,
           StreamCloses(a) => P,
           Unwound(a) => P,
           Close(a) => P,
           OnDone(a) => P
    PROVE  P
BY DEF Move, Generator, Task, Provider

Rests(b) ==
    /\ llm_lease'[b] = llm_lease[b] /\ gen'[b] = gen[b] /\ call'[b] = call[b]
    /\ stream'[b] = stream[b] /\ task'[b] = task[b] /\ job'[b] = job[b]
    /\ queue'[b] = queue[b] /\ shown'[b] = shown[b] /\ completed'[b] = completed[b]
    /\ interrupted'[b] = interrupted[b] /\ doneEvent'[b] = doneEvent[b]
    /\ left'[b] = left[b] /\ saved'[b] = saved[b]

\* No step of an answer writes what belongs to another.
LEMMA OthersRest ==
    ASSUME Typed, NEW a \in Answers, NEW b \in Answers \ {a}, Move(a)
    PROVE  Rests(b)
<1> USE DEF Typed, Rests, executor, state
<1>1. Reserve(a) => Rests(b)
  BY DEF Reserve
<1>2. Submit(a) => Rests(b)
  BY DEF Submit
<1>3. NoCapacity(a) => Rests(b)
  BY DEF NoCapacity
<1>4. JobStarts(a) => Rests(b)
  BY DEF JobStarts
<1>5. JobToken(a) => Rests(b)
  BY DEF JobToken
<1>6. JobEnds(a) => Rests(b)
  BY DEF JobEnds
<1>7. TaskEnds(a) => Rests(b)
  BY DEF TaskEnds
<1>8. Skip(a) => Rests(b)
  BY DEF Skip
<1>9. Choose(a) => Rests(b)
  BY DEF Choose
<1>10. Exhausted(a) => Rests(b)
  BY DEF Exhausted
<1>11. PrepareFails(a) => Rests(b)
  BY DEF PrepareFails, CallFails
<1>12. OpenStream(a) => Rests(b)
  BY DEF OpenStream
<1>13. TakeToken(a) => Rests(b)
  BY DEF TakeToken
<1>14. StreamFails(a) => Rests(b)
  BY DEF StreamFails, CallFails, LoopOver
<1>15. Ranked(a) => Rests(b)
  BY DEF Ranked, LoopOver
<1>16. StreamDone(a) => Rests(b)
  BY DEF StreamDone, LoopOver
<1>17. DoneFrame(a) => Rests(b)
  BY DEF DoneFrame
<1>18. Disconnect(a) => Rests(b)
  BY DEF Disconnect, Awaits
<1>19. StreamCloses(a) => Rests(b)
  BY DEF StreamCloses, CancelTask
<1>20. Unwound(a) => Rests(b)
  BY DEF Unwound
<1>21. Close(a) => Rests(b)
  BY DEF Close
<1>22. OnDone(a) => Rests(b)
  BY DEF OnDone
<1> QED
  BY <1>1, <1>2, <1>3, <1>4, <1>5, <1>6, <1>7, <1>8, <1>9, <1>10, <1>11, <1>12, <1>13,
       <1>14, <1>15, <1>16, <1>17, <1>18, <1>19, <1>20, <1>21, <1>22, Moves

\* What holds of an answer that rests goes on holding.
LEMMA RestKeeps ==
    ASSUME NEW b \in Answers, Rests(b), CallFits(b), VoiceFits(b), EndFits(b)
    PROVE  CallFits(b)' /\ VoiceFits(b)' /\ EndFits(b)'
BY DEF Rests, CallFits, VoiceFits, EndFits

\* Every step of an answer keeps the types.
LEMMA MoveTyped ==
    ASSUME Typed, NEW a \in Answers, CallFits(a), VoiceFits(a), Move(a)
    PROVE  Typed'
<1> USE ChatAssumption DEF Typed, executor, state, Ending
<1>1. Reserve(a) => Typed'
  BY DEF Reserve
<1>2. Submit(a) => Typed'
  BY DEF Submit, Working
<1>3. NoCapacity(a) => Typed'
  BY DEF NoCapacity, Finished
<1>4. JobStarts(a) => Typed'
  BY DEF JobStarts, Working
<1>5. JobToken(a) => Typed'
  BY DEF JobToken
<1>6. JobEnds(a) => Typed'
  BY DEF JobEnds, Working
<1>7. TaskEnds(a) => Typed'
  BY DEF TaskEnds, Finished
<1>8. Skip(a) => Typed'
  BY DEF Skip, Calls, VoiceFits
<1>9. Choose(a) => Typed'
  BY DEF Choose, Calls, VoiceFits
<1>10. Exhausted(a) => Typed'
  BY DEF Exhausted, Calls, VoiceFits
<1>11. PrepareFails(a) => Typed'
  BY DEF PrepareFails, CallFails, Calls, VoiceFits
<1>12. OpenStream(a) => Typed'
  BY DEF OpenStream
<1>13. TakeToken(a) => Typed'
  BY DEF TakeToken, Calls, VoiceFits
<1>14. ASSUME StreamFails(a) PROVE Typed'
  <2>1. stream' \in [Answers -> {"none", "open", "closing", "closed"}]
    BY <1>14 DEF StreamFails
  <2>2. gen[a] = "streaming" /\ CallFails(a)
    BY <1>14 DEF StreamFails, LoopOver
  <2>3. call' \in [Answers -> 0..Candidates + 1]
    BY <2>2 DEF CallFails, Calls, VoiceFits
  <2>4. gen' \in [Answers -> {"idle", "choosing", "preparing", "streaming", "answered"}
                             \cup Ending]
    BY <2>2 DEF CallFails
  <2> QED
    BY <1>14, <2>1, <2>3, <2>4 DEF StreamFails
<1>15. ASSUME Ranked(a) PROVE Typed'
  <2>1. stream' \in [Answers -> {"none", "open", "closing", "closed"}]
    BY <1>15 DEF Ranked
  <2>2. call' \in [Answers -> 0..Candidates + 1]
    BY <1>15 DEF Ranked
  <2>3. gen' \in [Answers -> {"idle", "choosing", "preparing", "streaming", "answered"}
                             \cup Ending]
    BY <1>15 DEF Ranked
  <2>4. doneEvent' \in [Answers -> {"none", "done", "error"}]
    BY <1>15 DEF Ranked
  <2> QED
    BY <1>15, <2>1, <2>2, <2>3, <2>4 DEF Ranked
<1>16. ASSUME StreamDone(a) PROVE Typed'
  <2>1. /\ stream' \in [Answers -> {"none", "open", "closing", "closed"}]
        /\ completed' \in [Answers -> BOOLEAN]
    BY <1>16 DEF StreamDone
  <2>2. call' \in [Answers -> 0..Candidates + 1]
    BY <1>16 DEF StreamDone, LoopOver, Calls, VoiceFits
  <2>3. gen' \in [Answers -> {"idle", "choosing", "preparing", "streaming", "answered"}
                             \cup Ending]
    BY <1>16 DEF StreamDone
  <2> QED
    BY <1>16, <2>1, <2>2, <2>3 DEF StreamDone
<1>17. DoneFrame(a) => Typed'
  BY DEF DoneFrame
<1>18. Disconnect(a) => Typed'
  BY DEF Disconnect, Awaits
<1>19. StreamCloses(a) => Typed'
  BY DEF StreamCloses, CancelTask, Working, Finished
<1>20. Unwound(a) => Typed'
  BY DEF Unwound
<1>21. Close(a) => Typed'
  BY DEF Close
<1>22. OnDone(a) => Typed'
  BY DEF OnDone
<1> QED
  BY <1>1, <1>2, <1>3, <1>4, <1>5, <1>6, <1>7, <1>8, <1>9, <1>10, <1>11, <1>12, <1>13,
       <1>14, <1>15, <1>16, <1>17, <1>18, <1>19, <1>20, <1>21, <1>22, Moves

\* Every step of an answer keeps what its variables say of each other.
LEMMA MoveFits ==
    ASSUME Typed, NEW a \in Answers, CallFits(a), VoiceFits(a), EndFits(a), Move(a)
    PROVE  CallFits(a)' /\ VoiceFits(a)' /\ EndFits(a)'
<1> DEFINE Fits == CallFits(a) /\ VoiceFits(a) /\ EndFits(a)
<1> USE ChatAssumption DEF Typed, executor, state, Ending, CallFits, VoiceFits, EndFits,
                           Finished, Working, Calls
<1>1. Reserve(a) => Fits'
  BY DEF Reserve
<1>2. Submit(a) => Fits'
  BY DEF Submit
<1>3. NoCapacity(a) => Fits'
  BY DEF NoCapacity
<1>4. JobStarts(a) => Fits'
  BY DEF JobStarts
<1>5. JobToken(a) => Fits'
  BY DEF JobToken
<1>6. JobEnds(a) => Fits'
  BY DEF JobEnds
<1>7. TaskEnds(a) => Fits'
  BY DEF TaskEnds
<1>8. Skip(a) => Fits'
  BY DEF Skip
<1>9. Choose(a) => Fits'
  BY DEF Choose
<1>10. Exhausted(a) => Fits'
  BY DEF Exhausted
<1>11. PrepareFails(a) => Fits'
  BY DEF PrepareFails, CallFails
<1>12. OpenStream(a) => Fits'
  BY DEF OpenStream
<1>13. TakeToken(a) => Fits'
  BY DEF TakeToken
<1>14. StreamFails(a) => Fits'
  BY DEF StreamFails, CallFails, LoopOver
<1>15. Ranked(a) => Fits'
  BY DEF Ranked, LoopOver
<1>16. StreamDone(a) => Fits'
  BY DEF StreamDone, LoopOver
<1>17. DoneFrame(a) => Fits'
  BY DEF DoneFrame
<1>18. Disconnect(a) => Fits'
  BY DEF Disconnect, Awaits
<1>19. StreamCloses(a) => Fits'
  BY DEF StreamCloses, CancelTask
<1>20. Unwound(a) => Fits'
  BY DEF Unwound
<1>21. Close(a) => Fits'
  BY DEF Close
<1>22. OnDone(a) => Fits'
  BY DEF OnDone
<1> QED
  BY <1>1, <1>2, <1>3, <1>4, <1>5, <1>6, <1>7, <1>8, <1>9, <1>10, <1>11, <1>12, <1>13,
       <1>14, <1>15, <1>16, <1>17, <1>18, <1>19, <1>20, <1>21, <1>22, Moves

\* The types and the relations between variables are inductive.
LEMMA AnswersInvStep ==
    ASSUME AnswersInv, [Next]_vars
    PROVE  AnswersInv'
<1>1. ASSUME NEW a \in Answers, Move(a) PROVE AnswersInv'
  <2>1. Typed'
    BY <1>1, MoveTyped DEF AnswersInv
  <2>2. CallFits(a)' /\ VoiceFits(a)' /\ EndFits(a)'
    BY <1>1, MoveFits DEF AnswersInv
  <2>3. ASSUME NEW b \in Answers \ {a} PROVE CallFits(b)' /\ VoiceFits(b)' /\ EndFits(b)'
    BY <1>1, OthersRest, RestKeeps DEF AnswersInv
  <2> QED
    BY <2>1, <2>2, <2>3 DEF AnswersInv
<1>2. ASSUME UNCHANGED vars PROVE AnswersInv'
  BY <1>2 DEF AnswersInv, vars, executor, state, Typed, CallFits, VoiceFits, EndFits
<1> QED
  BY <1>1, <1>2 DEF Next, Rest, Move

-----------------------------------------------------------------------------
(* The slots. *)

\* Where an answer counts among the reservations, the jobs and the lost slots.
LEMMA Counting ==
    ASSUME NEW S, IsFiniteSet(S), NEW x
    PROVE  /\ IsFiniteSet(S \cup {x}) /\ IsFiniteSet(S \ {x})
           /\ Cardinality(S) \in Nat
           /\ Cardinality(S \cup {x}) \in Nat /\ Cardinality(S \ {x}) \in Nat
           /\ x \notin S => Cardinality(S \cup {x}) = Cardinality(S) + 1
           /\ x \in S => Cardinality(S \ {x}) = Cardinality(S) - 1
BY FS_AddElement, FS_RemoveElement, FS_CardinalityType

\* A step that takes no slot and gives none back.
LEMMA SlotsRest ==
    ASSUME SlotsInv, UNCHANGED <<free, Held, Busy, Dropped>>
    PROVE  SlotsInv'
BY DEF SlotsInv, SlotsAccounted

\* Every step moves a slot from where it was to one other place.
LEMMA MoveSlots ==
    ASSUME AnswersInv, SlotsInv, NEW a \in Answers, Move(a)
    PROVE  SlotsInv'
<1> DEFINE H == Cardinality(Held)
           B == Cardinality(Busy)
           D == Cardinality(Dropped)
<1>1. /\ Typed /\ CallFits(a) /\ free \in Nat /\ MaxWorkers \in Nat
      /\ IsFiniteSet(Held) /\ IsFiniteSet(Busy) /\ IsFiniteSet(Dropped)
      /\ H \in Nat /\ B \in Nat /\ D \in Nat
      /\ free + H + B + D = MaxWorkers
  BY Counting, ChatAssumption DEF AnswersInv, Typed, SlotsInv, SlotsAccounted
<1>2. ASSUME UNCHANGED <<free, llm_lease, job>> PROVE SlotsInv'
  BY <1>2, SlotsRest DEF Held, Busy, Dropped
<1>3. ASSUME Reserve(a) PROVE SlotsInv'
  <2>1. a \notin Held /\ Held' = Held \cup {a}
    BY <1>1, <1>3 DEF Reserve, Held, Typed, CallFits
  <2>2. Busy' = Busy /\ Dropped' = Dropped
    BY <1>3 DEF Reserve, Busy, Dropped
  <2>3. IsFiniteSet(Held') /\ Cardinality(Held') = H + 1
    BY <1>1, <2>1, Counting
  <2> QED
    BY <1>1, <1>3, <2>2, <2>3 DEF Reserve, SlotsInv, SlotsAccounted
<1>4. ASSUME Submit(a) PROVE SlotsInv'
  <2>1. job[a] = "none" /\ job' = [job EXCEPT ![a] = "queued"]
    BY <1>1, <1>4 DEF Submit, CallFits
  <2>2. /\ a \notin Busy /\ Busy' = Busy \cup {a}
        /\ Dropped' = Dropped
    BY <1>1, <2>1 DEF Busy, Dropped, Working, Typed
  <2>3. IsFiniteSet(Busy') /\ Cardinality(Busy') = B + 1
    BY <1>1, <2>2, Counting
  <2>4. CASE llm_lease[a] = "held"
    <3>1. free' = free /\ a \in Held /\ Held' = Held \ {a}
      BY <1>1, <1>4, <2>4 DEF Submit, Held, Typed
    <3>2. IsFiniteSet(Held') /\ Cardinality(Held') = H - 1
      BY <1>1, <3>1, Counting
    <3> QED
      BY <1>1, <2>2, <2>3, <3>1, <3>2 DEF SlotsInv, SlotsAccounted
  <2>5. CASE llm_lease[a] # "held"
    <3>1. free' = free - 1 /\ Held' = Held
      BY <1>4, <2>5 DEF Submit, Held
    <3> QED
      BY <1>1, <2>2, <2>3, <3>1 DEF SlotsInv, SlotsAccounted
  <2> QED
    BY <2>4, <2>5
<1>5. ASSUME JobStarts(a) PROVE SlotsInv'
  <2>1. UNCHANGED <<free, Held, Busy, Dropped>>
    BY <1>1, <1>5 DEF JobStarts, Held, Busy, Dropped, Working, Typed
  <2> QED
    BY <2>1, SlotsRest
<1>6. ASSUME JobEnds(a) PROVE SlotsInv'
  <2>1. PICK outcome \in {"returned", "raised"} : job' = [job EXCEPT ![a] = outcome]
    BY <1>6 DEF JobEnds
  <2>2. /\ a \in Busy /\ Busy' = Busy \ {a}
        /\ Dropped' = Dropped
    BY <1>1, <1>6, <2>1 DEF JobEnds, Busy, Dropped, Working, Typed
  <2>3. Held' = Held /\ free' = free + 1
    BY <1>6 DEF JobEnds, Held
  <2>4. IsFiniteSet(Busy') /\ Cardinality(Busy') = B - 1
    BY <1>1, <2>2, Counting
  <2> QED
    BY <1>1, <2>2, <2>3, <2>4 DEF SlotsInv, SlotsAccounted
<1>7. ASSUME OpenStream(a) PROVE SlotsInv'
  <2>1. job[a] \notin Working \cup {"dropped"}
    BY <1>1, <1>7 DEF OpenStream, CallFits, Finished, Working, Typed, Ending
  <2>2. UNCHANGED <<free, Held, Busy, Dropped>>
    BY <1>1, <1>7, <2>1 DEF OpenStream, Held, Busy, Dropped, Working, Typed
  <2> QED
    BY <2>2, SlotsRest
<1>8. ASSUME StreamCloses(a) PROVE SlotsInv'
  <2>1. free' = free /\ Held' = Held
    BY <1>8 DEF StreamCloses, Held
  <2>2. CASE job' = job
    BY <1>8, <2>2, <1>2 DEF StreamCloses
  <2>3. CASE job' # job
    <3>1. job' = [job EXCEPT ![a] = IF @ = "queued" THEN "dropped" ELSE @]
      BY <1>8, <2>3 DEF StreamCloses, CancelTask
    <3>2. job[a] = "queued" /\ job' = [job EXCEPT ![a] = "dropped"]
      BY <1>1, <2>3, <3>1 DEF Typed
    <3>3. /\ a \in Busy /\ Busy' = Busy \ {a}
          /\ a \notin Dropped /\ Dropped' = Dropped \cup {a}
      BY <1>1, <3>2 DEF Busy, Dropped, Working, Typed
    <3>4. IsFiniteSet(Busy') /\ Cardinality(Busy') = B - 1
      BY <1>1, <3>3, Counting
    <3>5. IsFiniteSet(Dropped') /\ Cardinality(Dropped') = D + 1
      BY <1>1, <3>3, Counting
    <3> QED
      BY <1>1, <2>1, <3>4, <3>5 DEF SlotsInv, SlotsAccounted
  <2> QED
    BY <2>2, <2>3
<1>9. ASSUME Close(a) PROVE SlotsInv'
  <2>1. Busy' = Busy /\ Dropped' = Dropped
    BY <1>9 DEF Close, Busy, Dropped
  <2>2. CASE llm_lease[a] = "held"
    <3>1. free' = free + 1 /\ a \in Held /\ Held' = Held \ {a}
      BY <1>1, <1>9, <2>2 DEF Close, Held, Typed
    <3>2. IsFiniteSet(Held') /\ Cardinality(Held') = H - 1
      BY <1>1, <3>1, Counting
    <3> QED
      BY <1>1, <2>1, <3>1, <3>2 DEF SlotsInv, SlotsAccounted
  <2>3. CASE llm_lease[a] # "held"
    <3>1. UNCHANGED <<free, Held, Busy, Dropped>>
      BY <1>1, <1>9, <2>1, <2>3 DEF Close, Held, Typed
    <3> QED
      BY <3>1, SlotsRest
  <2> QED
    BY <2>2, <2>3
<1>10. ASSUME \/ NoCapacity(a) \/ JobToken(a) \/ TaskEnds(a) \/ Skip(a) \/ Choose(a)
              \/ Exhausted(a) \/ PrepareFails(a) \/ TakeToken(a) \/ StreamFails(a)
              \/ Ranked(a) \/ StreamDone(a) \/ DoneFrame(a) \/ Disconnect(a)
              \/ Unwound(a) \/ OnDone(a)
       PROVE  SlotsInv'
  <2>1. UNCHANGED <<free, llm_lease, job>>
    BY <1>10 DEF NoCapacity, JobToken, TaskEnds, Skip, Choose, Exhausted, PrepareFails,
         TakeToken, StreamFails, Ranked, StreamDone, DoneFrame, Disconnect, Unwound,
         OnDone, executor
  <2> QED
    BY <2>1, <1>2
<1> QED
  BY <1>3, <1>4, <1>5, <1>6, <1>7, <1>8, <1>9, <1>10, Moves

LEMMA ChatInvStep ==
    ASSUME ChatInv, [Next]_vars
    PROVE  ChatInv'
<1>1. AnswersInv'
  BY AnswersInvStep DEF ChatInv
<1>2. ASSUME NEW a \in Answers, Move(a) PROVE SlotsInv'
  BY <1>2, MoveSlots DEF ChatInv
<1>3. ASSUME UNCHANGED vars PROVE SlotsInv'
  <2>1. UNCHANGED <<free, Held, Busy, Dropped>>
    BY <1>3 DEF vars, executor, Held, Busy, Dropped
  <2> QED
    BY <2>1, SlotsRest DEF ChatInv
<1> QED
  BY <1>1, <1>2, <1>3 DEF Next, Rest, Move, ChatInv

LEMMA ChatInvInit == Init => ChatInv
<1> SUFFICES ASSUME Init PROVE ChatInv
  OBVIOUS
<1>1. Typed
  BY ChatAssumption DEF Init, Typed, Ending
<1>2. ASSUME NEW a \in Answers PROVE CallFits(a) /\ VoiceFits(a) /\ EndFits(a)
  BY ChatAssumption DEF Init, CallFits, VoiceFits, EndFits, Ending, Calls, Finished
<1>3. Held = {} /\ Busy = {} /\ Dropped = {}
  BY DEF Init, Held, Busy, Dropped, Working
<1>4. SlotsInv
  BY <1>3, FS_EmptySet, ChatAssumption DEF Init, SlotsInv, SlotsAccounted
<1> QED
  BY <1>1, <1>2, <1>4 DEF ChatInv, AnswersInv

\* The inductive invariant holds in every reachable state.
THEOREM ChatInvHolds == Spec => []ChatInv
BY ChatInvInit, ChatInvStep, PTL DEF Spec

-----------------------------------------------------------------------------
(* What follows from it. *)

\* Every variable keeps its type: the semaphore never counts past its size.
THEOREM ChatTypeCorrect == Spec => []TypeOK
<1>1. ChatInv => TypeOK
  <2> SUFFICES ASSUME ChatInv PROVE TypeOK
    OBVIOUS
  <2>1. free \in 0..MaxWorkers
    <3>1. /\ Cardinality(Held) \in Nat /\ Cardinality(Busy) \in Nat
          /\ Cardinality(Dropped) \in Nat
      BY Counting DEF ChatInv, SlotsInv
    <3> QED
      BY <3>1, ChatAssumption DEF ChatInv, SlotsInv, SlotsAccounted, AnswersInv, Typed
  <2> QED
    BY <2>1 DEF ChatInv, AnswersInv, Typed, TypeOK, Ending
<1> QED
  BY <1>1, ChatInvHolds, PTL

\* No slot is returned twice, and none is lost except with a job dropped from the queue,
\* however cancellation, release_if_unused, run and invoke are interleaved.
THEOREM SlotsAreAccounted == Spec => []SlotsAccounted
<1>1. ChatInv => SlotsAccounted
  BY DEF ChatInv, SlotsInv
<1> QED
  BY <1>1, ChatInvHolds, PTL

\* The client hears one candidate, and the done frame comes after its last token.
THEOREM OneWholeVoiceHolds == Spec => []OneWholeVoice
<1>1. ChatInv => OneWholeVoice
  <2> SUFFICES ASSUME ChatInv PROVE OneWholeVoice
    OBVIOUS
  <2>1. ASSUME NEW a \in Answers PROVE Cardinality(shown[a]) <= 1
    <3>1. shown[a] = {} \/ shown[a] = {call[a]}
      BY DEF ChatInv, AnswersInv, VoiceFits
    <3>2. Cardinality(shown[a]) \in {0, 1}
      BY <3>1, FS_EmptySet, FS_Singleton, Zenon
    <3> QED
      BY <3>2
  <2>2. DoneIsLast
    BY DEF ChatInv, AnswersInv, EndFits, CallFits, DoneIsLast
  <2> QED
    BY <2>1, <2>2 DEF OneWholeVoice, OneVoice
<1> QED
  BY <1>1, ChatInvHolds, PTL

\* What a client that left has already seen is recorded as interrupted, whichever await the
\* disconnection reached.
THEOREM InterruptedIsKept == Spec => []InterruptedKept
<1>1. ChatInv => InterruptedKept
  BY DEF ChatInv, AnswersInv, EndFits, InterruptedKept
<1> QED
  BY <1>1, ChatInvHolds, PTL
=============================================================================
