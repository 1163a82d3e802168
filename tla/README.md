# Verification of the poker server

TLA+ models of the program in `src/`, a server that answers requests for poker
decisions: what each part does, TLC configurations that check it on small
instances, and theorems that TLAPS proves for instances of every size.

## 1. Inventory

The program is one process. Its main thread runs a libevent loop (`Deploy`); each
connection has a `SessionHandle` with two `SessionBuffer`s; a decide request is
answered inside the read callback by `handleRobotDecide2`, which rebuilds the game
from the request's history and may search in one of four `Research` engines. An
engine has detached consumer threads that live as long as the process. `Pluribus`,
`Game`, `State`, `Card`, `Task`, `TaskQueue`, the protobuf messages and libevent are
not in the repository and are modelled from how `src/` uses them.

| Component | State | Operations | Interacts with | Correct when |
|---|---|---|---|---|
| `Research` | task queue, `numIterations`, `numProcessed`, `maxIterations`, `consumeRunning`, `numTaskThread`, the searched `State` | `init`, `depthLimitedSearch`, `search`, `kill`, `wait`, `consume` in each thread | the callback thread and its own consumers, by atomics and the queue | a completed search did all its iterations; none uses a deleted `State`; rounds of discount and of training stay apart; every search and every wait ends |
| `SessionBuffer` | bytes, head, tail, capacity | `append`, `recycle`, `clear` | owned by one session | it is a queue of bytes; the offsets stay inside; `append` returns |
| Connection | two buffers, the bufferevent, life of the handle | read callback, `dispatch`, `process`, `sendData`, `shutdown`, event callback | libevent; calls the handlers | packets are processed once, in order, whole; replies are delivered once, in order; nothing is used after its deletion |
| Decision | figures of the table, legal actions, strategy, `testhands` | `getLegalActions2`, show list, draw, bet | the tree of an engine, configuration | the answer is legal, payable and a raise when it says so |
| History replay | pot, stacks, bets, raises, ranges, `State` | bookkeeping per line, abstraction of bets, range update | `State`, `Evaluate::eval` | pot and stacks add up; no range of a live hand is emptied |
| `Evaluate` | card and hand lists | `init`, clones, `eval`, `dealCards` to `dealCards4` | `Game`, the ranges in `State` | no card twice; everyone in the game gets a hand |
| `Deploy` | engines, loop, listener, timer, signal | `init`, `loop`, `final`, tests | everything | every request is served; one engine works at a time; the loop ends between two calls, with no task in the engines that are deleted |
| `SessionManager` | a map under a lock | `addSession`, `delSession`, `findSession`, `CheckSession` | timer callback; nothing adds to it | - |
| `BluePrint`, `NetMsg` | tree pointer; header fields | forwards; packing | external tree; wire | - |

Hard behaviours: consumer threads against the searching thread; tasks that survive a
time-out; a kill at any moment; one `State` shared by pointer and deleted by the
session; streams cut into any pieces; a buffer that moves its contents wrongly when it
is full; sessions deleted in the middle of a callback; formulas for bets computed twice.
`PROJECT.json` lists every hazard at its line with the properties that watch it.

## 2. Modules

| Module | Models | Kind |
|---|---|---|
| `Research` | one engine: the caller thread and the consumers | detailed specification |
| `TrainingBatch` | what a search promises: `Start`, `Iterate`, `Complete`, `Abandon`, `Stop` | abstract specification |
| `ResearchRefinement` | the mapping from `Research` to `TrainingBatch` | refinement |
| `SessionBuffer` | the buffer's operations, as operators on its three fields | library of actions |
| `BufferUser` | one buffer under any sequence of calls | specification |
| `ByteFifo` | a bounded queue of bytes | abstract specification |
| `Session` | a connection: callbacks, dispatch, two buffers (two instances of `SessionBuffer`) | composition |
| `Evaluate` | the dealing functions | specification |
| `Decide` | from the table's figures to the answered action and bet | specification |
| `Betting` | the actions, their sizes, and `Replayed`: what a history guarantees of the figures | operators shared by `Replay` and `Decide` |
| `Ranges` | hand lists, clusters, `eval`, the Bayes step and the pruning | operators |
| `Replay` | from a request to the figures: set-up, every line of history, early returns | specification, with the game outside it |
| `Server` | `Deploy`, the loop over all connections, the four engines and their consumers | composition, at the grain of calls and tasks |
| `*Proofs` | theorems about the module of that name | proofs |
| `FoldLemmas` | what sums over finite sets and concatenations of sequences compute | lemmas used by the proofs |
| `MC*` | values of the constants for TLC | instances |

**Correspondence.** A variable has the name of the field or local it stands for. `pc`
(and `cpc`, `phase`) says between which statements a thread is. Each loop body, handler
or early return is an action; `PROJECT.json` maps every definition to its lines.
Definitions whose comment begins "A variant" or "A slip" are plausible bugs. No action
uses them; replacing the definition that follows by the slip must break a property,
which shows that the property depends on that line of code.

*Research.* Each access to an atomic or to the queue is a step, so every interleaving of
the caller and the consumers at that grain is explored. `DiscountInterval`,
`StrategyInterval`, the threshold and the number of iterations are constants. The time is
one flag, `expired`, which may be set at any step of a search. `batch`, `outcome`,
`carried`, `abandoned` and `lastDiscount` are history.

*Session.* A byte is a packet number and a position. A header that is decoded at a place
where no packet begins may say anything (`Headers`). `shutdown` deletes the handle: the
steps after it are `UseDeleted`. The reply of a handler is a number of bytes.

*Evaluate.* Cards and hands are sets; the ranges and the board are chosen by `Init`. An
index outside a vector leads to the end state `"undefined"`.

*Decide.* `Tables` holds the figures a replayed history may leave; `Betting!Replayed`
names what the replay guarantees of them: the blinds are in the pot, and so is the bet to
call. `ReplayProofs` proves that every replay does guarantee it, so the assumption of
`DecideProofs` about tables is discharged. A strategy is a function from actions to
weights. Raises 5 and 6 are never legal, and the `firstBet` sizes need `historyStage` 1,
which the five cards in `testboardCards` exclude.

*Replay.* The game server is outside: `Blinds`, `Play` and `NextRound` extend a game that
keeps the rules of betting, and each request carries the whole history so far, as the
protobuf message does. What is the code's: `Request` to `Later` (lines 364-525 of
`SessionHandle.cpp`), `BlindLine`, `PlayLine` and `AfterTheEnd` for one turn of the loop of
lines 529-802 each, the deal and the returns after it. Whether a command ends the hand in
the engine's own game, and so the exit "@Fuck you(0)!!!!", is open. The locals live from
request to return; `setUp` says whether the members `testhands` and `testboardCards` have
been filled. Reading an empty vector ends in the phase `"crashed"`, or goes on. `marks`,
`states`, `requests`, `answers` and `dropped` are history.

*Ranges.* A probability is a natural number over the unit of its range, so products and
the division by `probA` are exact; the rounding of the doubles is left out. What a node
gives for a hand is chosen from `PreflopNodes` and `BoardNodes`. Before the flop a node is
found by the cluster of the hand, with a board by the hand.

*Server.* A search has the steps of `Research` without the discount and strategy rounds,
and its tasks are counted instead of queued one by one; a call is what `Replay` and
`Decide` leave out: the look-up of the node, the search, and the show list. Several packets
read in one callback are several calls here, with those of other connections in between.
Once the engines are deleted nothing is said about their consumers, whose next step is
undefined.

## 3. Runs

| Run | Checks | Bounds and why they suffice |
|---|---|---|
| `research_batch` | `TypeOK`, `CompletedMeansDone`, `NoUseAfterDelete`, `OneDiscountPerCount`, `BatchSpec` (implements `TrainingBatch`) | 2 consumers, so that two tasks overlap; 1 agent; 1 or 3 iterations around the threshold 2; 2 searches, so that one can leak into the next; no time-out, kill only between searches |
| `research_stop` | `Accounting`, `QueueHomogeneous`, `StoppedMeansExited`, `SearchReturns`, `KillStops` | as above with 0 or 2 iterations, time-outs and a kill at any moment |
| `research_late` | **violation** of `MissionCompleted` | one iteration per search, time-outs |
| `research_wait` | **violation** of `Test3Ends` | `numTaskThread` constructed as 0 or 1 |
| `buffer` | `TypeOK`, `OneMove`, `FifoWhileFits` (implements `ByteFifo` up to the capacity) | 8 bytes into a capacity of 5: full use of the buffer, the refusal and the move are reached |
| `buffer_moved` | **violation** of `AppendSucc` | as `buffer` |
| `session` | `TypeOK`, `InOrder`, `RepliesExact`, `Served`, `CallbackReturns` | 3 packets of good, bad, silent and answered kinds, cut anywhere; writes that fail at any place; the connection may end; streams that fit the buffer and longer ones |
| `session_deleted` | **violation** of `NothingAfterShutdown` | 2 packets |
| `evaluate` | `TypeOK`, `CardsApart`, `EveryoneDealt`, `EnoughCards` | 3 players, 6 cards in ranges and one outside; ranges full, single or empty; players out; boards |
| `decide` | `TypeOK`, `RaiseRaises`, `RaisePayable`, `MinRaise`, `FreeFoldIsFailure` | pots from the blinds up, calls 0 to 3, stacks below, at and above the smallest bet, every rule, both raise modes, both seats; strategies that are empty, all zero, a fold alone, and one raise beside a zero |
| `replay` | `TypeOK`, `TableAgrees`, `FiguresReplayed`, `OwnRaiseRecovered`, `OnlyDroppedLeak`, `AnsweredNeverCrashes`, `RangesAreDistributions`, `SuitsAlike` | 3 seats at a table of 4, so that seats move; stacks of 16, 14 and 6, so that a short stack is all in below the bets of the others; games of up to 5 lines, with raises of the robot's sizes and one other, all-ins and new rounds; 2 requests, so that one finds what another set up; 4 cards (2 faces, 2 suits) make 6 hands in 3 clusters; nodes that halve, forbid or miss hands |
| `server` | `TypeOK`, `OneAtWork`, `DecidedOnLastShown`, `RequestsServed`, `InterruptEnds` | 2 engines, 2 connections, 2 requests in any order, 2 iterations, 0 or 1 consumer for each engine, 2 shown hands; tasks that add no node, one or two; time-outs, an interrupt at any moment |

`MaxBatches`, `MaxBytes`, `MaxPackets`, `MaxHistory`, `MaxRequests` and the sets of tables,
strategies and nodes are the only bounds. `Word` stands for 2^32 and is larger than any
count in the instance. The numbers of the experiment in the code are constants of
`Replay`, and scaled down with the length of the game: the cards are set up at 3 lines
instead of 10 (`SetupSize`), ranges are updated after line 2 instead of 12 (`RangeFrom`),
the overridden line is the one with index 4 instead of 14 (`OddLine`) and its bet becomes
3 instead of 32 (`OddBet`); 1/1326 is 1/8 (`DefaultOdds`), which like 1326 is more than the
number of hands. Their order and their use are the code's, and the theorems hold for all
values, those of the code included.

**What the passing runs say about the code.** `TableAgrees`: apart from the overridden line the
figures are the game's, also for the seats that are moved to the end of the table.
`OwnRaiseRecovered`: a raise the robot made comes back from the history as the action it
was, with the exceptions the property names: three quarters of a pot of 5, bets put up to
the smallest bet, the raise of a third, which has no name in the replay, and the opening.
`RangesAreDistributions`: the pruning never empties a range; it takes an action that no
hand of the range would have taken, for which `probA` is 0. `DecidedOnLastShown`: the decision does not
rest on the hand of the request but on the last hand of the show list that has a node.

**What the four violations show.** (1) `search` ends on a count to which a task of the
previous, timed-out search may have contributed: "Training mission completed" with an
iteration missing. On the way (states 14 and 15 of the counterexample) the task is still
being processed when the `State` it trains on is deleted. (2) `numTaskThread` has no initial value; `wait` returns only if it
happened to be 0. (3) `append` reports success after a move that loses or repeats bytes.
(4) After `shutdown` the callback uses the freed handle and bufferevent.

**Deadlock** is checked in `buffer`, `buffer_moved` and `decide`. The other models really
stop: a killed engine, a closed connection, a finished deal, a game at its last line, a
server that has ended, or whose loop waits for an engine without consumers.

**Fairness.** `Research`: weak fairness of the caller and of each consumer (threads of a
preemptive scheduler; their sleeps are finite and `Task::Process` terminates), and of the
passing of time only where a search can time out. `Session`: weak fairness of the
loop of `append`, which is sequential code, and of the callbacks,
because the event loop calls them as long as input is pending and each is sequential;
no fairness of the network, of the client or of `kill`. `Server`: weak fairness of the
steps of a call (sequential code that the loop runs as long as a request is pending), of
each consumer, of the time-out, of the signal event and of the end of the loop; none of
arrivals and interrupts. `RequestsServed` and `InterruptEnds` assume one consumer or more:
with none, which `hardware_concurrency` allows, the first search waits in
`waitTaskQueueIdle` before it looks at the clock, for ever, and the loop with it.

**Premises of the properties.** `InOrder`, `RepliesExact` and `Served` are about streams and
replies that fit the buffer. `NoUseAfterDelete` and `OneAtWork` leave out searches that
timed out. `RaisePayable` leaves out the scripted opening sizes and stacks below the
smallest bet. `RaiseRaises` and `MinRaise` are about `mRealRaise` 1; with 0 a raise can be
smaller than the call. A call larger than the stack is answered as a call.

**Known defects.** Some of these premises are there because the code is wrong outside them.
A violation run needs a line of the repository that promises otherwise, and for the
following there is none, or only one beside the point; so they are not findings, but a
maintainer should read them as defects.

| Where | What happens | Where the models have it |
|---|---|---|
| `SessionHandle.cpp:1330`, `Research.cpp:115` | After a time-out the answer deletes the `State` while a consumer still trains on it. | `Research!DeleteState` with a task in hand; the counterexample of `research_late` shows it |
| `SessionHandle.cpp:902` | The seat is passed where the stage is expected; the second seat gets the opening sizes on every street, which the bet branch does not know. The answered bet can exceed the stack. | premise of `RaisePayable` |
| `SessionHandle.cpp:1236` | A stack below the smallest bet: the bet is put up to it all the same. | premise of `RaisePayable` |
| `Evaluate.cpp:304` | `dealCards2` indexes modulo 1326, and the only list that `cloneHandPairs` can give holds the 28 pairs of the eight test cards; the comment at `Evaluate.hpp:61` speaks of 1326 hands. Its caller is outside the repository. | `dealCards2` ends in `"undefined"`; premise of `EnoughCards` |
| `Evaluate.cpp:264` | When no hand of a range is free, the first of none is taken. | `NoValidHand`; premise of `EnoughCards` |
| `SessionHandle.cpp:464`, `:805` | A request with a short history, or one whose deal fails, gets no answer, and its `State` is never deleted. | `TooShort`, `NoCards`, `Undecided`; counted by `OnlyDroppedLeak` |
| `SessionHandle.cpp:487` | The log line reads four elements of `boardCards` just after it was cleared. | `SetUp` may end in `"crashed"` |
| `SessionHandle.cpp:735` | `testboardCards` is empty until a request of exactly ten lines has come on the connection; before that its first three elements are read. | `UpdateRange` may end in `"crashed"`; premise of `AnsweredNeverCrashes` |
| `SessionHandle.cpp:548` | The bet of the fifteenth line is replaced by 32, a trace of an experiment. | `Shift` in `TableAgrees` |
| `SessionHandle.cpp:1068` | The show list leaves its last hand in `testhands`; the decision rests on it. | `DecidedOnLastShown` describes it |
| `SessionHandle.cpp:203`, `Deploy.cpp:181` | The results of `append` are ignored: bytes that do not fit, of the input or of a reply, are lost without a word. | premises of `InOrder`, `Served` and `RepliesExact` |
| `Research.cpp:25` | `hardware_concurrency` may be 0; then the first search hangs the server. | premise of `RequestsServed` and `InterruptEnds` |
| `Research.cpp:124` | While the last iterations run, the discount is repeated at the same count. | exception in `OneDiscountPerCount` |
| `Research.cpp:302` | A discount waits for an empty queue only; a task in hand overlaps it. | `QueueHomogeneous` is about the queue |
| `Research.cpp:46`, `Deploy.cpp:247` | The engines are deleted under their detached consumers. | `Server` ends there |

## 4. Proofs

All proofs are checked by TLAPS without unproved leaves; the assumptions are the named
`ASSUME`s on the constants, which TLC evaluates in the runs.

- **Research** (`ResearchProofs`). `IInv` joins `TypeOK` with: which task types the queue
  may hold at each place of the caller (`QueueByPhase`); the balance of issued, processed,
  in-flight, queued and carried-over tasks (`Accounting`); that nothing is left of earlier
  searches while none was abandoned (`Quiet`); when the `State` exists (`StateInUse`);
  that `numTaskThread` is the number of living threads (`ThreadsCounted`). None of the
  checked invariants is inductive alone: completion is sound only because of the balance,
  and the balance only because the carried-over tasks are known. `Inductive` proves
  `IInv`; six theorems follow from it, among them the action property
  `OneDiscountPerCount`; `ImplementsBatch` proves that each step is a step of
  `TrainingBatch` or a stutter when nothing times out or is killed in a search.
- **SessionBuffer** (`BufferUserProofs`). Offsets stay inside for every capacity, at most
  one move, and, while no more bytes than the capacity pass, every step is one of `ByteFifo`.
- **Evaluate** (`EvaluateProofs`). `DInv` relates the cards dealt, the hands recorded and
  the seats still to visit; a counting argument with finite cardinalities gives
  `EnoughCards`: two cards per seat and the board fit in the deck.
- **Replay** (`ReplayProofs`). `GInv` says what the rules of betting keep in the game and
  its history; `FInv` what the replay keeps in the figures: the bet to beat is that of some
  player, any two bets of a round are both in the pot, the blinds are in it after two
  lines, and no stack is below what its seat has now. `FiguresReplayed` is not inductive
  without them: that the pot holds the call beside the own bet comes from the sums, that the
  stack of the robot is positive from the rules. `CInv` relates answers to the set-up.
  `SInv` says of a range that hands in one cluster have the same odds, which a Bayes step
  keeps because the step looks at the cluster only. `RInv` with bounds on the division in
  `Factor` gives `OwnRaisesReadBack`, for every pot, call and raise mode.
  `RangesStayDistributions` rests on `MInv`, which is about every seat and not only those
  with a range, and on sums: the Bayes step divides by the sum it multiplied with, and a
  pruning that emptied a range would leave less than `DefaultOdds` shares of 1/`DefaultOdds`.
  `ReplayCopiesTheGame` needs an invariant on each side. `Ledger` is about the game alone:
  what each line says of stack, bet and pot follows from the line before it, and what a
  seat has put in is what its stack has lost since the round began. `Copied` says that after
  `step` lines the figures are the game as it was then, with the replaced bet carried along
  (`OddPot`, `OddPart`). Neither names a sum over the history: both speak of the last line
  of a seat, which is why they are inductive.
- **Session** (`SessionProofs`). `Types` adds the types of the buffers and the histories to
  `TypeOK`. `InOrder` is not inductive, because it says nothing of what is in the buffer:
  `Reading` says that up to the capacity `mReadBuffer` is the stream read so far, with its
  head where the packets given back end, and that `header` is the packet being answered.
  `InOrder` is then a consequence of the framing: the first bytes in use can only be the
  header of the next packet (`NextAtHead`). `Writing` says the same of `mWriteBuffer`
  and adds to `RepliesExact` that its tail is the length of all replies taken, which rules
  out the move and the refusal. `CompletePacketsTaken` is the safety half of `Served`: when
  the callback returns, the next packet has not come as a whole. It has no run of its own;
  `Served` is violated wherever it would be.
- **Folds** (`FoldLemmas`). `MapThenSumSet` and `FlattenSeq` are recursive functions of the
  community modules. The induction theorems of the library cannot be applied here, but
  induction over numbers can be done with least counterexamples (`NatMin`, `NatInduct`), and
  over the parts of a finite set by their size. So `FoldLemmas` proves that the folds have
  the values their definitions describe, that a sum can be taken in any order and grows with
  its set, and that a concatenation ends with its last member.
- **Server** (`ServerProofs`). `Inv` counts: while no search of an engine has timed out,
  issued = processed + queued + taken during its search and nothing is left outside it; so
  when processed reaches the number of iterations nothing is queued or taken. From it come
  `OneEngineAtWork` and, because no node is added then, `LastShownDecides`.
- **Decide** (`DecideProofs`). `DecideInv` says that the legal actions belong to the same
  figures as the bet, so that the two computations of a size can be compared. Two
  lemmas on rounding carry the argument: a third of four chips is a chip, and half of a
  pot is at least a number the pot is twice of.

**Only model-checked**: liveness (`SearchReturns`, `KillStops`, `Served`, `CallbackReturns`,
`RequestsServed`, `InterruptEnds`) and the liveness part of `TrainingBatch`, because the
prover handles neither fairness nor ENABLED. Every invariant and every action property
that a run checks is a theorem.

**Assumptions.** They are what the code gives its constants. `SessionAssumption`: one read is
no larger than a buffer (8192 bytes into 128 KB), a packet has a header, and a reply fits an
empty buffer. `ReplayAssumption`: every
seat brings a stack of its own, enough for the big blind. `RangesAssumption`: there are finitely many cards, and no more hands than
`DefaultOdds` (1326 hands, 1/1326 each).

## 5. Not modelled

- `SessionManager`: nothing in `src/` calls `addSession`, so the map is always empty, and
  `CheckSession` collects nothing because its test is commented out. There is no behaviour
  to check.
- `BluePrint`: three forwards to `Pluribus`, which is not in the repository.
- `NetMsg`: the byte layout of the header. `Session` takes a header as what it decodes to.
- `parallelLoad`, `isParallelLoaded`, `parallelSave`, `waitThreadsIdle` and `final` of
  `Research`: a constant `false` in `init` keeps the first two from running, and nothing
  calls the others.
- The timer of `deploy_main`: its event is a local of a block that ends before the loop
  starts; what the loop then does with it is undefined. Its callback would only print and
  call `CheckSession`.
- What happens after undefined behaviour: consumers on deleted engines, calls on a deleted
  session, elements read from empty vectors. The models lead to such a state and name it.
- What training computes, the game engine, the cluster of a hand with a board (shared
  memory), and the texts of log lines; `test1` to `test6` of `Deploy`, which drive the other
  components; the dump of a request to a file.
- The rounding of the doubles in the ranges.

Further work, in order: the full write buffer in `Session` (`packSend` with a header that
fits and a body that does not); a run that says of the deletion of the engines what the log
says of the exit; that the two buffers of `Session`, up to their capacities, implement
`ByteFifo`.
