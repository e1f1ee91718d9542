------------------------ MODULE StratumSessionProofs ------------------------
(***************************************************************************)
(* Theorems about StratumSession: types, what the miner was told, and what *)
(* vardiff measures, for any difficulties and any scenarios.               *)
(*                                                                         *)
(* The argument for both: as long as no change went astray, at most one of *)
(* them is on its way to the miner (OnItsWay), and at most one to          *)
(* vardiff's window (InWindow), and the goroutine that brings it holds the *)
(* difficulty in force in its hands.  A change that is made while none is  *)
(* on its way restores both.                                               *)
(***************************************************************************)
EXTENDS StratumSession, TLAPS

\* A goroutine past its first step has data of the right kind in its hands.
HeldData ==
  /\ hpc \in {"suggestTell", "queue", "midSet", "midTell", "midReset"} => hdiff \in Diffs
  /\ \A b \in Broadcasters : bpc[b] \in {"tell", "reset"} => bdiff[b] \in Diffs

TypeInv == TypeOK /\ HeldData

\* What the configuration and the miner's habits rule out.
ModeInv ==
  /\ ~cfg.onNewBlock => /\ pendingDiff = 0 /\ hpc # "queue"
                        /\ \A b \in Broadcasters : bpc[b] \notin {"tell", "reset"}
  /\ cfg.onNewBlock => hpc \notin {"midSet", "midTell", "midReset"}

\* What is on its way to the miner is one change, the difficulty in force.
OnItsWay ==
  word # "astray" =>
    /\ hpc \in {"suggestTell", "midTell"} => hdiff = difficulty
    /\ hpc \in {"authTell", "suggestTell", "midTell"} => \A b \in Broadcasters : bpc[b] # "tell"
    /\ \A b \in Broadcasters : bpc[b] = "tell" =>
         bdiff[b] = difficulty /\ \A c \in Broadcasters : bpc[c] = "tell" => c = b

\* So is what is on its way to vardiff's window.
InWindow ==
  window # "astray" =>
    /\ hpc \in {"midTell", "midReset"} => hdiff = difficulty
    /\ \A b \in Broadcasters : bpc[b] \in {"tell", "reset"} =>
         bdiff[b] = difficulty /\ \A c \in Broadcasters : bpc[c] \in {"tell", "reset"} => c = b

\* What vardiff is about to change the difficulty to is what it computes from next.
Decided == hpc = "midSet" => hdiff = base

IInv == TypeInv /\ ModeInv /\ OnItsWay /\ InWindow /\ Decided

-----------------------------------------------------------------------------
(* Types                                                                    *)

LEMMA TypeInvInit == Init => TypeInv
<1>1. Init => cfg \in Configs /\ DefaultDiff \in Diffs
  BY ScenariosAssumption, DiffsAssumption DEF Init
<1> QED
  BY <1>1, SharesAssumption DEF Init, TypeInv, TypeOK, HeldData, HandlerSteps,
     BroadcastSteps, Courses

\* Every step keeps the types, of the data in hand too.
LEMMA TypeInvStep ==
  ASSUME TypeInv, [Next]_vars
  PROVE  TypeInv'
<1> USE DiffsAssumption, SharesAssumption DEF TypeInv, TypeOK, HeldData, Configs,
     HandlerSteps, BroadcastSteps, Courses, SetDifficulty, sessionVars,
     vardiffVars, handlerVars, broadcastVars, historyVars
<1>1. CASE UNCHANGED vars
  BY <1>1 DEF vars
<1>2. ASSUME NEW b \in Broadcasters, NEW clean \in BOOLEAN,
             Publish(b, clean)
      PROVE  TypeInv'
  BY <1>2 DEF Publish
<1>3. ASSUME NEW b \in Broadcasters, Visit(b) PROVE TypeInv'
  BY <1>3 DEF Visit, Done
<1>4. ASSUME NEW b \in Broadcasters, Flush(b) PROVE TypeInv'
  <2>1. CASE Flushes(b)
    BY <1>4, <2>1 DEF Flush, Flushes, Sent
  <2>2. CASE ~ Flushes(b)
    <3>1. UNCHANGED <<difficulty, prevDiff, pendingDiff, bdiff, word, window>> /\ Done(b)
      BY <1>4, <2>2 DEF Flush
    <3> QED
      BY <1>4, <3>1 DEF Flush, Done
  <2> QED
    BY <2>1, <2>2
<1>5. ASSUME NEW b \in Broadcasters, Tell(b) PROVE TypeInv'
  BY <1>5 DEF Tell, Arrived
<1>6. ASSUME NEW b \in Broadcasters, Reset(b) PROVE TypeInv'
  BY <1>6 DEF Reset, Done, Arrived
<1>7. CASE AuthorizeTell
  BY <1>7 DEF AuthorizeTell, Arrived
<1>8. CASE SuggestTell
  BY <1>8 DEF SuggestTell, Arrived
<1>9. CASE RecordShare
  BY <1>9 DEF RecordShare
<1>10. ASSUME NEW d \in Diffs, Adjust(d) PROVE TypeInv'
  BY <1>10 DEF Adjust
<1>11. CASE Queue
  BY <1>11 DEF Queue
<1>12. CASE MidBlockSet
  BY <1>12 DEF MidBlockSet, Sent
<1>13. CASE MidBlockTell
  BY <1>13 DEF MidBlockTell, Arrived
<1>14. CASE MidBlockReset
  BY <1>14 DEF MidBlockReset, Arrived
<1>15. CASE Subscribe
  BY <1>15 DEF Subscribe
<1>16. ASSUME NEW d \in Diffs \cup {0}, NEW accepted \in BOOLEAN,
             Authorize(d, accepted)
      PROVE  TypeInv'
  BY <1>16 DEF Authorize, Sent
<1>17. ASSUME NEW d \in Diffs, Suggest(d) PROVE TypeInv'
  BY <1>17 DEF Suggest, Sent
<1>18. CASE Submit
  BY <1>18 DEF Submit
<1>19. CASE Reconnect
  BY <1>19 DEF Reconnect
<1> QED
  BY <1>1, <1>2, <1>3, <1>4, <1>5, <1>6, <1>7, <1>8, <1>9, <1>10, <1>11,
     <1>12, <1>13, <1>14, <1>15, <1>16, <1>17, <1>18, <1>19
     DEF Next, BroadcastStep, HandlerStep, Request

\* Every variable of a session and of its broadcasts stays of its kind.
THEOREM TypeCorrect == Spec => []TypeOK
<1>1. TypeInv => TypeOK
  BY DEF TypeInv
<1> QED
  BY <1>1, TypeInvInit, TypeInvStep, PTL DEF Spec

-----------------------------------------------------------------------------
(* What is on its way                                                       *)

LEMMA ModeInit == Init => ModeInv /\ OnItsWay /\ InWindow /\ Decided
BY DEF Init, ModeInv, OnItsWay, InWindow, Decided, Broadcasters

\* What the scenario rules out stays ruled out.
LEMMA ModeStep ==
  ASSUME TypeInv, ModeInv, [Next]_vars
  PROVE  ModeInv'
<1> USE DEF TypeInv, TypeOK, HeldData, ModeInv, Broadcasters, SetDifficulty, sessionVars,
     vardiffVars, handlerVars, broadcastVars, historyVars
<1>1. CASE UNCHANGED vars
  BY <1>1 DEF vars
<1>2. ASSUME NEW b \in Broadcasters, NEW clean \in BOOLEAN,
             Publish(b, clean)
      PROVE  ModeInv'
  BY <1>2 DEF Publish
<1>3. ASSUME NEW b \in Broadcasters, Visit(b) PROVE ModeInv'
  BY <1>3 DEF Visit, Done
<1>4. ASSUME NEW b \in Broadcasters, Flush(b) PROVE ModeInv'
  BY <1>4 DEF Flush, Flushes, MuFree, Done, Sent
<1>5. ASSUME NEW b \in Broadcasters, Tell(b) PROVE ModeInv'
  BY <1>5 DEF Tell, Arrived
<1>6. ASSUME NEW b \in Broadcasters, Reset(b) PROVE ModeInv'
  BY <1>6 DEF Reset, Done, Arrived
<1>7. CASE AuthorizeTell
  BY <1>7 DEF AuthorizeTell, Arrived
<1>8. CASE SuggestTell
  BY <1>8 DEF SuggestTell, Arrived
<1>9. CASE RecordShare
  BY <1>9 DEF RecordShare
<1>10. ASSUME NEW d \in Diffs, Adjust(d) PROVE ModeInv'
  BY <1>10 DEF Adjust
<1>11. CASE Queue
  BY <1>11 DEF Queue
<1>12. CASE MidBlockSet
  BY <1>12 DEF MidBlockSet, Sent
<1>13. CASE MidBlockTell
  BY <1>13 DEF MidBlockTell, Arrived
<1>14. CASE MidBlockReset
  BY <1>14 DEF MidBlockReset, Arrived
<1>15. CASE Subscribe
  BY <1>15 DEF Subscribe
<1>16. ASSUME NEW d \in Diffs \cup {0}, NEW accepted \in BOOLEAN,
             Authorize(d, accepted)
      PROVE  ModeInv'
  BY <1>16 DEF Authorize, Sent
<1>17. ASSUME NEW d \in Diffs, Suggest(d) PROVE ModeInv'
  BY <1>17 DEF Suggest, Sent
<1>18. CASE Submit
  BY <1>18 DEF Submit
<1>19. CASE Reconnect
  BY <1>19 DEF Reconnect
<1> QED
  BY <1>1, <1>2, <1>3, <1>4, <1>5, <1>6, <1>7, <1>8, <1>9, <1>10, <1>11,
     <1>12, <1>13, <1>14, <1>15, <1>16, <1>17, <1>18, <1>19
     DEF Next, BroadcastStep, HandlerStep, Request

\* Whoever changes the difficulty while another change is on its way marks it as gone astray.
LEMMA OnItsWayStep ==
  ASSUME TypeInv, OnItsWay, [Next]_vars
  PROVE  OnItsWay'
<1> USE DEF TypeInv, TypeOK, OnItsWay, Telling, SetDifficulty, sessionVars,
     vardiffVars, handlerVars, broadcastVars, historyVars
<1>1. CASE UNCHANGED vars
  BY <1>1 DEF vars
<1>2. ASSUME NEW b \in Broadcasters, NEW clean \in BOOLEAN,
             Publish(b, clean)
      PROVE  OnItsWay'
  BY <1>2 DEF Publish
<1>3. ASSUME NEW b \in Broadcasters, Visit(b) PROVE OnItsWay'
  BY <1>3 DEF Visit, Done
<1>4. ASSUME NEW b \in Broadcasters, Flush(b) PROVE OnItsWay'
  BY <1>4 DEF Flush, Flushes, MuFree, Done, Sent
<1>5. ASSUME NEW b \in Broadcasters, Tell(b) PROVE OnItsWay'
  BY <1>5 DEF Tell, Arrived
<1>6. ASSUME NEW b \in Broadcasters, Reset(b) PROVE OnItsWay'
  BY <1>6 DEF Reset, Done, Arrived
<1>7. CASE AuthorizeTell
  BY <1>7 DEF AuthorizeTell, Arrived
<1>8. CASE SuggestTell
  BY <1>8 DEF SuggestTell, Arrived
<1>9. CASE RecordShare
  BY <1>9 DEF RecordShare
<1>10. ASSUME NEW d \in Diffs, Adjust(d) PROVE OnItsWay'
  BY <1>10 DEF Adjust
<1>11. CASE Queue
  BY <1>11 DEF Queue
<1>12. CASE MidBlockSet
  BY <1>12 DEF MidBlockSet, Sent
<1>13. CASE MidBlockTell
  BY <1>13 DEF MidBlockTell, Arrived
<1>14. CASE MidBlockReset
  BY <1>14 DEF MidBlockReset, Arrived
<1>15. CASE Subscribe
  BY <1>15 DEF Subscribe
<1>16. ASSUME NEW d \in Diffs \cup {0}, NEW accepted \in BOOLEAN,
             Authorize(d, accepted)
      PROVE  OnItsWay'
  BY <1>16 DEF Authorize, Sent
<1>17. ASSUME NEW d \in Diffs, Suggest(d) PROVE OnItsWay'
  BY <1>17 DEF Suggest, Sent
<1>18. CASE Submit
  BY <1>18 DEF Submit
<1>19. CASE Reconnect
  BY <1>19 DEF Reconnect
<1> QED
  BY <1>1, <1>2, <1>3, <1>4, <1>5, <1>6, <1>7, <1>8, <1>9, <1>10, <1>11,
     <1>12, <1>13, <1>14, <1>15, <1>16, <1>17, <1>18, <1>19
     DEF Next, BroadcastStep, HandlerStep, Request

\* So does whoever delivers to the window while another delivery is under way.
LEMMA InWindowStep ==
  ASSUME TypeInv, ModeInv, InWindow, [Next]_vars
  PROVE  InWindow'
<1> USE DEF TypeInv, TypeOK, ModeInv, InWindow, Resetting, SetDifficulty, sessionVars,
     vardiffVars, handlerVars, broadcastVars, historyVars
<1>1. CASE UNCHANGED vars
  BY <1>1 DEF vars
<1>2. ASSUME NEW b \in Broadcasters, NEW clean \in BOOLEAN,
             Publish(b, clean)
      PROVE  InWindow'
  BY <1>2 DEF Publish
<1>3. ASSUME NEW b \in Broadcasters, Visit(b) PROVE InWindow'
  BY <1>3 DEF Visit, Done
<1>4. ASSUME NEW b \in Broadcasters, Flush(b) PROVE InWindow'
  BY <1>4 DEF Flush, Flushes, MuFree, Done, Sent
<1>5. ASSUME NEW b \in Broadcasters, Tell(b) PROVE InWindow'
  BY <1>5 DEF Tell, Arrived
<1>6. ASSUME NEW b \in Broadcasters, Reset(b) PROVE InWindow'
  BY <1>6 DEF Reset, Done, Arrived
<1>7. CASE AuthorizeTell
  BY <1>7 DEF AuthorizeTell, Arrived
<1>8. CASE SuggestTell
  BY <1>8 DEF SuggestTell, Arrived
<1>9. CASE RecordShare
  BY <1>9 DEF RecordShare
<1>10. ASSUME NEW d \in Diffs, Adjust(d) PROVE InWindow'
  BY <1>10 DEF Adjust
<1>11. CASE Queue
  BY <1>11 DEF Queue
<1>12. CASE MidBlockSet
  BY <1>12 DEF MidBlockSet, Sent
<1>13. CASE MidBlockTell
  BY <1>13 DEF MidBlockTell, Arrived
<1>14. CASE MidBlockReset
  BY <1>14 DEF MidBlockReset, Arrived
<1>15. CASE Subscribe
  BY <1>15 DEF Subscribe
<1>16. ASSUME NEW d \in Diffs \cup {0}, NEW accepted \in BOOLEAN,
             Authorize(d, accepted)
      PROVE  InWindow'
  BY <1>16 DEF Authorize, Sent
<1>17. ASSUME NEW d \in Diffs, Suggest(d) PROVE InWindow'
  BY <1>17 DEF Suggest, Sent
<1>18. CASE Submit
  BY <1>18 DEF Submit
<1>19. CASE Reconnect
  BY <1>19 DEF Reconnect
<1> QED
  BY <1>1, <1>2, <1>3, <1>4, <1>5, <1>6, <1>7, <1>8, <1>9, <1>10, <1>11,
     <1>12, <1>13, <1>14, <1>15, <1>16, <1>17, <1>18, <1>19
     DEF Next, BroadcastStep, HandlerStep, Request

\* In the middle of a block no broadcast restarts the window.
LEMMA DecidedStep ==
  ASSUME TypeInv, ModeInv, Decided, [Next]_vars
  PROVE  Decided'
<1> USE DEF TypeInv, TypeOK, ModeInv, Decided, SetDifficulty, sessionVars,
     vardiffVars, handlerVars, broadcastVars, historyVars
<1>1. CASE UNCHANGED vars
  BY <1>1 DEF vars
<1>2. ASSUME NEW b \in Broadcasters, NEW clean \in BOOLEAN,
             Publish(b, clean)
      PROVE  Decided'
  BY <1>2 DEF Publish
<1>3. ASSUME NEW b \in Broadcasters, Visit(b) PROVE Decided'
  BY <1>3 DEF Visit, Done
<1>4. ASSUME NEW b \in Broadcasters, Flush(b) PROVE Decided'
  BY <1>4 DEF Flush, Flushes, MuFree, Done, Sent
<1>5. ASSUME NEW b \in Broadcasters, Tell(b) PROVE Decided'
  BY <1>5 DEF Tell, Arrived
<1>6. ASSUME NEW b \in Broadcasters, Reset(b) PROVE Decided'
  BY <1>6 DEF Reset, Done, Arrived
<1>7. CASE AuthorizeTell
  BY <1>7 DEF AuthorizeTell, Arrived
<1>8. CASE SuggestTell
  BY <1>8 DEF SuggestTell, Arrived
<1>9. CASE RecordShare
  BY <1>9 DEF RecordShare
<1>10. ASSUME NEW d \in Diffs, Adjust(d) PROVE Decided'
  BY <1>10 DEF Adjust
<1>11. CASE Queue
  BY <1>11 DEF Queue
<1>12. CASE MidBlockSet
  BY <1>12 DEF MidBlockSet, Sent
<1>13. CASE MidBlockTell
  BY <1>13 DEF MidBlockTell, Arrived
<1>14. CASE MidBlockReset
  BY <1>14 DEF MidBlockReset, Arrived
<1>15. CASE Subscribe
  BY <1>15 DEF Subscribe
<1>16. ASSUME NEW d \in Diffs \cup {0}, NEW accepted \in BOOLEAN,
             Authorize(d, accepted)
      PROVE  Decided'
  BY <1>16 DEF Authorize, Sent
<1>17. ASSUME NEW d \in Diffs, Suggest(d) PROVE Decided'
  BY <1>17 DEF Suggest, Sent
<1>18. CASE Submit
  BY <1>18 DEF Submit
<1>19. CASE Reconnect
  BY <1>19 DEF Reconnect
<1> QED
  BY <1>1, <1>2, <1>3, <1>4, <1>5, <1>6, <1>7, <1>8, <1>9, <1>10, <1>11,
     <1>12, <1>13, <1>14, <1>15, <1>16, <1>17, <1>18, <1>19
     DEF Next, BroadcastStep, HandlerStep, Request

LEMMA IInvHolds == Spec => []IInv
<1>1. Init => IInv
  BY TypeInvInit, ModeInit DEF IInv
<1>2. IInv /\ [Next]_vars => IInv'
  BY TypeInvStep, ModeStep, OnItsWayStep, InWindowStep, DecidedStep DEF IInv
<1> QED
  BY <1>1, <1>2, PTL DEF Spec

-----------------------------------------------------------------------------
(* The difficulty the miner was told                                        *)

\* A change that is alone on its way is the difficulty in force when it arrives.
LEMMA ToldStep ==
  ASSUME IInv, ToldDifficulty, [Next]_vars
  PROVE  ToldDifficulty'
<1> USE DEF IInv, TypeInv, TypeOK, OnItsWay, ToldDifficulty, Telling, SetDifficulty, sessionVars,
     vardiffVars, handlerVars, broadcastVars, historyVars
<1>1. CASE UNCHANGED vars
  BY <1>1 DEF vars
<1>2. ASSUME NEW b \in Broadcasters, NEW clean \in BOOLEAN,
             Publish(b, clean)
      PROVE  ToldDifficulty'
  BY <1>2 DEF Publish
<1>3. ASSUME NEW b \in Broadcasters, Visit(b) PROVE ToldDifficulty'
  BY <1>3 DEF Visit, Done
<1>4. ASSUME NEW b \in Broadcasters, Flush(b) PROVE ToldDifficulty'
  BY <1>4 DEF Flush, Flushes, MuFree, Done, Sent
<1>5. ASSUME NEW b \in Broadcasters, Tell(b) PROVE ToldDifficulty'
  BY <1>5 DEF Tell, Arrived
<1>6. ASSUME NEW b \in Broadcasters, Reset(b) PROVE ToldDifficulty'
  BY <1>6 DEF Reset, Done, Arrived
<1>7. CASE AuthorizeTell
  BY <1>7 DEF AuthorizeTell, Arrived
<1>8. CASE SuggestTell
  BY <1>8 DEF SuggestTell, Arrived
<1>9. CASE RecordShare
  BY <1>9 DEF RecordShare
<1>10. ASSUME NEW d \in Diffs, Adjust(d) PROVE ToldDifficulty'
  BY <1>10 DEF Adjust
<1>11. CASE Queue
  BY <1>11 DEF Queue
<1>12. CASE MidBlockSet
  BY <1>12 DEF MidBlockSet, Sent
<1>13. CASE MidBlockTell
  BY <1>13 DEF MidBlockTell, Arrived
<1>14. CASE MidBlockReset
  BY <1>14 DEF MidBlockReset, Arrived
<1>15. CASE Subscribe
  BY <1>15 DEF Subscribe
<1>16. ASSUME NEW d \in Diffs \cup {0}, NEW accepted \in BOOLEAN,
             Authorize(d, accepted)
      PROVE  ToldDifficulty'
  BY <1>16 DEF Authorize, Sent
<1>17. ASSUME NEW d \in Diffs, Suggest(d) PROVE ToldDifficulty'
  BY <1>17 DEF Suggest, Sent
<1>18. CASE Submit
  BY <1>18 DEF Submit
<1>19. CASE Reconnect
  BY <1>19 DEF Reconnect
<1> QED
  BY <1>1, <1>2, <1>3, <1>4, <1>5, <1>6, <1>7, <1>8, <1>9, <1>10, <1>11,
     <1>12, <1>13, <1>14, <1>15, <1>16, <1>17, <1>18, <1>19
     DEF Next, BroadcastStep, HandlerStep, Request

\* An authorized miner works at the session's difficulty, or at the one before it while
\* the change is on its way to it, but for changes that crossed and were not made good yet.
THEOREM ToldDifficultyHolds == Spec => []ToldDifficulty
<1>1. Init => ToldDifficulty
  BY DEF Init, ToldDifficulty
<1>2. IInv /\ ToldDifficulty /\ [Next]_vars => ToldDifficulty'
  BY ToldStep
<1> QED
  BY <1>1, <1>2, IInvHolds, PTL DEF Spec

-----------------------------------------------------------------------------
(* The difficulty vardiff measures                                          *)

\* The window restarts from the difficulty that was set.
LEMMA TracksStep ==
  ASSUME IInv, VardiffTracks, [Next]_vars
  PROVE  VardiffTracks'
<1> USE DEF IInv, TypeInv, TypeOK, ModeInv, InWindow, Decided, VardiffTracks, Resetting,
     SetDifficulty, sessionVars,
     vardiffVars, handlerVars, broadcastVars, historyVars
<1>1. CASE UNCHANGED vars
  BY <1>1 DEF vars
<1>2. ASSUME NEW b \in Broadcasters, NEW clean \in BOOLEAN,
             Publish(b, clean)
      PROVE  VardiffTracks'
  BY <1>2 DEF Publish
<1>3. ASSUME NEW b \in Broadcasters, Visit(b) PROVE VardiffTracks'
  BY <1>3 DEF Visit, Done
<1>4. ASSUME NEW b \in Broadcasters, Flush(b) PROVE VardiffTracks'
  BY <1>4 DEF Flush, Flushes, MuFree, Done, Sent
<1>5. ASSUME NEW b \in Broadcasters, Tell(b) PROVE VardiffTracks'
  BY <1>5 DEF Tell, Arrived
<1>6. ASSUME NEW b \in Broadcasters, Reset(b) PROVE VardiffTracks'
  BY <1>6 DEF Reset, Done, Arrived
<1>7. CASE AuthorizeTell
  BY <1>7 DEF AuthorizeTell, Arrived
<1>8. CASE SuggestTell
  BY <1>8 DEF SuggestTell, Arrived
<1>9. CASE RecordShare
  BY <1>9 DEF RecordShare
<1>10. ASSUME NEW d \in Diffs, Adjust(d) PROVE VardiffTracks'
  BY <1>10 DEF Adjust
<1>11. CASE Queue
  BY <1>11, DiffsAssumption DEF Queue, HeldData
<1>12. CASE MidBlockSet
  BY <1>12 DEF MidBlockSet, Sent
<1>13. CASE MidBlockTell
  BY <1>13 DEF MidBlockTell, Arrived
<1>14. CASE MidBlockReset
  BY <1>14 DEF MidBlockReset, Arrived
<1>15. CASE Subscribe
  BY <1>15 DEF Subscribe
<1>16. ASSUME NEW d \in Diffs \cup {0}, NEW accepted \in BOOLEAN,
             Authorize(d, accepted)
      PROVE  VardiffTracks'
  BY <1>16 DEF Authorize, Sent
<1>17. ASSUME NEW d \in Diffs, Suggest(d) PROVE VardiffTracks'
  BY <1>17 DEF Suggest, Sent
<1>18. CASE Submit
  BY <1>18 DEF Submit
<1>19. CASE Reconnect
  BY <1>19 DEF Reconnect
<1> QED
  BY <1>1, <1>2, <1>3, <1>4, <1>5, <1>6, <1>7, <1>8, <1>9, <1>10, <1>11,
     <1>12, <1>13, <1>14, <1>15, <1>16, <1>17, <1>18, <1>19
     DEF Next, BroadcastStep, HandlerStep, Request

\* Vardiff computes from the difficulty in force, except between its own decision and the
\* delivery, and where a choice of the miner or a crossing was not made good yet.
THEOREM VardiffTracksHolds == Spec => []VardiffTracks
<1>1. Init => VardiffTracks
  BY DEF Init, VardiffTracks
<1>2. IInv /\ VardiffTracks /\ [Next]_vars => VardiffTracks'
  BY TracksStep
<1> QED
  BY <1>1, <1>2, IInvHolds, PTL DEF Spec

-----------------------------------------------------------------------------
(* The queued difficulty                                                    *)

\* A share is measured, and its adjustment queued, only while nothing is queued: the
\* goroutine that looks is the only one that queues.
Unqueued == hpc \in {"record", "queue"} => pendingDiff = 0

Taken ==
  pendingDiff > 0 =>
    \/ pendingDiff' = pendingDiff
    \/ pendingDiff' = 0 /\ difficulty' = pendingDiff
    \/ state' = "connected"

\* A step that leaves the queue alone keeps it so, unless it begins to measure.
LEMMA QueueUntouched ==
  ASSUME Unqueued, UNCHANGED pendingDiff,
         hpc' \in {"record", "queue"} => hpc \in {"record", "queue"} \/ pendingDiff = 0
  PROVE  Unqueued' /\ Taken
BY DEF Unqueued, Taken

\* The queue is filled when it is empty and emptied into the difficulty in force; in
\* the middle of a block there is nothing in it.
LEMMA QueueStep ==
  ASSUME TypeInv, ModeInv, Unqueued, [Next]_vars
  PROVE  Unqueued' /\ Taken
<1> USE DEF sessionVars, handlerVars
<1>1. CASE UNCHANGED vars
  BY <1>1, QueueUntouched DEF vars
<1>2. ASSUME NEW b \in Broadcasters, NEW clean \in BOOLEAN,
             Publish(b, clean)
      PROVE  Unqueued' /\ Taken
  BY <1>2, QueueUntouched DEF Publish
<1>3. ASSUME NEW b \in Broadcasters, BroadcastStep(b) PROVE Unqueued' /\ Taken
  <2>1. ASSUME Visit(b) \/ Tell(b) \/ Reset(b) PROVE Unqueued' /\ Taken
    BY <2>1, QueueUntouched DEF Visit, Done, Tell, Reset
  <2>2. ASSUME Flush(b) PROVE Unqueued' /\ Taken
    BY <2>2 DEF Flush, Flushes, SetDifficulty, Unqueued, Taken
  <2> QED
    BY <1>3, <2>1, <2>2 DEF BroadcastStep
<1>4. ASSUME HandlerStep PROVE Unqueued' /\ Taken
  <2>1. ASSUME AuthorizeTell \/ SuggestTell \/ RecordShare
        PROVE  Unqueued' /\ Taken
    BY <2>1, QueueUntouched DEF AuthorizeTell, SuggestTell, RecordShare
  <2>2. ASSUME NEW d \in Diffs, Adjust(d) PROVE Unqueued' /\ Taken
    BY <2>2, QueueUntouched DEF Adjust
  <2>3. ASSUME Queue PROVE Unqueued' /\ Taken
    BY <2>3 DEF Queue, Unqueued, Taken
  <2>4. ASSUME MidBlockSet PROVE Unqueued' /\ Taken
    BY <2>4 DEF MidBlockSet, ModeInv, TypeInv, TypeOK, Configs, Unqueued, Taken
  <2>5. ASSUME MidBlockTell \/ MidBlockReset PROVE Unqueued' /\ Taken
    BY <2>5, QueueUntouched DEF MidBlockTell, MidBlockReset
  <2> QED
    BY <1>4, <2>1, <2>2, <2>3, <2>4, <2>5 DEF HandlerStep
<1>5. ASSUME Request PROVE Unqueued' /\ Taken
  <2>1. ASSUME Subscribe PROVE Unqueued' /\ Taken
    BY <2>1, QueueUntouched DEF Subscribe
  <2>2. ASSUME NEW d \in Diffs \cup {0}, NEW accepted \in BOOLEAN, Authorize(d, accepted)
        PROVE  Unqueued' /\ Taken
    BY <2>2, QueueUntouched DEF Authorize
  <2>3. ASSUME NEW d \in Diffs, Suggest(d) PROVE Unqueued' /\ Taken
    BY <2>3, QueueUntouched DEF Suggest
  <2>4. ASSUME Submit PROVE Unqueued' /\ Taken
    BY <2>4, QueueUntouched DEF Submit
  <2>5. ASSUME Reconnect PROVE Unqueued' /\ Taken
    BY <2>5 DEF Reconnect, Unqueued, Taken
  <2> QED
    BY <1>5, <2>1, <2>2, <2>3, <2>4, <2>5 DEF Request
<1> QED
  BY <1>1, <1>2, <1>3, <1>4, <1>5 DEF Next

\* What vardiff decided for the next block takes effect or goes with the session: nothing
\* else takes it out of the queue.
THEOREM QueuedTakesEffectHolds == Spec => QueuedTakesEffect
<1>1. Init => Unqueued
  BY DEF Init, Unqueued
<1>2. IInv /\ Unqueued /\ [Next]_vars => Unqueued'
  BY QueueStep DEF IInv
<1>3. IInv /\ Unqueued /\ [Next]_vars => [Taken]_vars
  BY QueueStep DEF IInv
<1> QED
  BY <1>1, <1>2, <1>3, IInvHolds, PTL DEF Spec, QueuedTakesEffect, Taken
=============================================================================
