# TLA+ models of the ZeroMQ XOP

The ZeroMQ XOP is an extension (a shared library) of Igor Pro. It gives Igor Pro's language functions to send and receive on
four ZeroMQ sockets, and a *message handler* with which other programs call Igor functions over the network. These modules
model the parts of it that keep state, the threads that share that state, and the algorithms that check requests and convert
values. TLC checks them on small instances, and TLAPS proves the central safety properties for every instance.

Paths are relative to the repository; the implementation is in `src/src/`. Lines of the source are given in `PROJECT.json`
under `map`, definition by definition.

## 1. The system

### Threads

| thread | runs |
|---|---|
| Igor Pro's main thread | XOP functions called by user code; IDLE, INIT and CLEANUP events (`XOPEntry`); the functions that requests ask for |
| preemptive Igor threads | the XOP functions marked thread safe (all but `zeromq_handler_start` and `zeromq_handler_stop`), so `zeromq_stop` as well |
| handler worker | `MessageHandler.cpp`, `WorkerThread()` |
| heartbeat worker | `HeartbeatPublisher.cpp`, `WorkerThread()` |

### Components

| component | state | operations | what makes it correct |
|---|---|---|---|
| Message handler (`MessageHandler.cpp`) | worker thread, `threadShouldFinish`, `threadMutex` | `Start`, `Stop`, `HandleAllQueuedMessages`, the worker's loop | requests executed at most once, in order, and replied to; no deadlock; `Stop` ends the worker, nothing else does |
| Request queue (`ConcurrentQueue.h`) | queue, non-recursive mutex | `push`, `empty`, `apply_to_all` | the mutex is not taken twice by a thread and is not part of a cycle of waiting threads |
| XOP entry points (`ZeroMQ.cpp`) | `idleInProgress` | IDLE, CLEANUP, INIT | IDLE events do not nest; they stop working only after one that failed |
| Socket registry (`GlobalData.cpp`) | per socket type a pointer, a list of binds or connections and a mutex; subscriber filters | `ZMQSocket`, bind/connect, filters, `CloseConnections`, IPv6 | no socket leaks; lists and filters say what the sockets do; `CloseConnections` closes everything |
| Receiving (`HelperFunctions.cpp`, `zeromq_*_recv*.cpp`) | the socket's stream of frames | server, client, subscriber (multi) receive, the log entry before the return | never mixes two messages; well-formed messages get through; what is returned is in the log |
| Sending and payload conversion (`zeromq_*_send*.cpp`, `send_struct.cpp`) | the caller's waves | `GatherPubData`: a wave reference wave becomes a message; `ConvertSubData`: a message becomes the rows of one | 0 is returned for whole messages only; rows hold their frames, other waves are left alone; free waves are held exactly |
| Wave serialization (`SerializeWave.cpp`) | none; reads waves | a wave becomes a JSON document | a reader of the document gets the wave |
| Settings (`ApplyFlags`, `zeromq_set.cpp`) and logging (`Logging.cpp`) | flags, log sink with its template, log file | `zeromq_set`, `zeromq_set_logging_template`, `AddLogEntry` | overlapping calls leave settings that were asked for; entries follow the template of their session |
| History grabber (`HistoryGrabber.cpp`) | line of the history at its creation | `GetHistoryUntilNow` | an aborted function's reply has what the function printed |
| Request interface (`RequestInterface.cpp`) | one request | parsing and checking a JSON document; the reply | rejects exactly what is invalid; the reply carries the `messageID` |
| CallFunction (`CallFunctionOperation.cpp`, `CallFunctionParameterHandler.cpp`) | parameter storage, handles | signature check, conversion, call, read-back, destruction | what the check accepts can be converted; reply matches the declaration; handles are disposed of once, the one that leaks apart |
| Heartbeat publisher | worker thread, flag, mutex | `Start`, `Stop`, send every 5 s | ends when stopped, never uses a closed socket |
| Notices (`ConcurrentXOPNotice.cpp`) | queue of texts | output now or queue | order, no loss |

How they interact: the worker receives on the server socket (its mutex held for up to the 1 ms receive timeout), checks the
document and pushes it into `reqQueue`. An IDLE event in the main thread takes the queue mutex, keeps it for *all* queued
requests, calls each function and sends each reply on the server socket. The function may call `DoXOPIdle`, which re-enters
the IDLE handler, or any XOP function, `zeromq_handler_stop` and `zeromq_stop` included. `Stop` keeps `threadMutex` while it
joins the worker. `zeromq_stop` is `Stop` followed by `CloseConnections`.

What is hard: three mutexes, a join and a re-entrant event handler; a stop flag that the new thread resets by itself; sockets
that are fetched in one critical section and used in another; exceptions between setting and resetting a guard; peers that
vanish between request and reply. Section "hazards" of `PROJECT.json` lists these places line by line with the properties
that cover them.

## 2. The modules

| module | models | lines up with |
|---|---|---|
| `MessageHandler` | handler, queue, IDLE, `zeromq_handler_start/stop`, `zeromq_stop`, peers | one action per critical section; `wpc` is the worker's place, `mpc` the main thread's place in the IDLE handler, `call[t]` the XOP function a thread is in |
| `RequestService` | abstract: what the handler promises its peers | no threads, locks or sockets |
| `MCMessageHandler` | instances for TLC | |
| `MessageHandlerProofs` | TLAPS proofs | |
| `RequestServiceProofs` | TLAPS proof of the refinement | `Seen`, `Running` are the service's view of the handler's variables |
| `Sockets` | socket registry and the two critical sections of `GET_SOCKET` | `socket`, `list`, `filters` are the members of `GlobalData`; `zmq` is the library's view of a handle (external); `LongEndpoints` do not fit into the buffer of `GetLastEndPoint`, and `Refusable` are the kinds of operations for which a socket may refuse an option |
| `ConnectionService` | abstract: what the socket functions promise callers that let no operation overlap a close | no handles, creation, mutexes or rounds of the close |
| `MCSockets`, `SocketsProofs` | instances and proofs | `View` is what callers see of a socket |
| `Settings` | `zeromq_set` with `ApplyFlags`, `zeromq_set_logging_template`, the log file | `todo[s]` is what the call of `ApplyFlags` in thread `s` has still to assign, so that calls overlap; `sink` is the template of `m_loggingSink`, `log` the lines of the file |
| `Receive`, `MCReceive` | extends `Settings` with the three receive algorithms on a stream of frames, and the functions that wait for them and log what they return | a frame carries its message, position, `more` flag and whether it is empty; settings and templates change under the receiver, as from another thread |
| `ReceiveProofs` | TLAPS proofs, of the log and the settings as well | |
| `Waves` | waves and the helpers that read, write, resize and create them | a wave's type code is its set of bits, its data its memory, byte by byte for numeric waves; `refs` counts the references that keep a free wave; `IsHeap` and `HeldByRows` are what Igor Pro guarantees of its waves |
| `Payload` | extends `Waves` with the send functions and `zeromq_sub_recv_multi` | one action per call, and one per row of `ConvertSubData`, which may throw between two rows; a send may fail at every frame, and `queued` is what the publisher keeps of an incomplete message |
| `PayloadProofs` | TLAPS proofs | |
| `SerializeWave` | operators: the document of a wave | one operator per function of the source, with its name; a JSON value is a tagged record |
| `WaveCalls`, `MCWaves` | `Payload` and `zeromq_test_serializeWave` on one heap; a reader that follows the Readme's table | `View` is what a wave says, `Read` what its document says |
| `History` | operators: the lines of Igor Pro's history, `GetHistoryUntilNow`, `CleanupString` | |
| `RequestInterface`, `MCRequestInterface` | extends `History` with the checks of a request document in the order of the code, and the reply, by the handler or by `zeromq_test_callfunction` | a document is which entries are there, and right or wrong |
| `RequestInterfaceProofs` | TLAPS proofs | |
| `CallFunction` | `CanBeProcessed`, the parameter handler, the call, the reply and the destructor | an Igor type code is its set of bits; a text is what the conversions tell apart |
| `CallFunctionProofs` | TLAPS proofs | |
| `Notices` | the queue of texts for Igor Pro's history | a notice is its number; the ghost variables `done` and `after` record which calls had returned when another began |
| `Lifecycle` | extends `Notices` with INIT, IDLE events, the heartbeat thread and CLEANUP | `phase` and `idle` are the main thread's place, `hpc` the heartbeat's; `HandleAllQueuedMessages` returns or throws in one step, the message handler's `Stop` is one step too |
| `LifecycleProofs` | TLAPS proofs, of the notices as well | |

Abstractions. Payloads, names, endpoints and filters are model values. A mutex that no modelled thread keeps across two
actions has no variable (`threadShouldFinishMutex`, the settings mutex, which no reader takes, and the logging mutex, under
which `AddLogEntry` and `SetLoggingTemplate` are one step, the registry's mutexes in `Sockets`). In `MessageHandler` the
server socket is its bind, its queue of arrived requests, the identities it can route to and its mutex; `Sockets` models the
registry behind it. `LogMayFail` stands for enabled logging with log entries that may throw: `ASSERT` in `Logging.cpp` throws
an `IgorException`, and `json::dump` of a text that is not UTF-8 (an identity frame, for instance) throws another exception.
The verdict `"unprintable"` is a function whose result `json::dump` does not accept.

Definitions preceded by a comment `mutant` are not part of the specifications: they are plausible wrong versions of a
definition, and `PROJECT.json` lists for each property of a passing run one mutant under which TLC refutes the property.

## 3. The runs

`tlc -config <run>.cfg <module>`; modules and properties are in `PROJECT.json`.

| run | instance | shows |
|---|---|---|
| `handler_core` | main thread, one preemptive thread, two peers, four requests (executed, rejected, refused, malformed); peers may leave, log entries may fail; functions may nest IDLE; 1.3 million states | no deadlock, the worker ends only for a joining `Stop`, no request vanishes between the socket and its reply, and the handler implements `RequestService` |
| `handler_live` | a main thread that may start and stop, a preemptive thread that may stop, and no start that overlaps a stop (`StartApart`); two requests, one of them unprintable, peers that stay; functions that may nest IDLE or call `zeromq_handler_start`; fairness; 8 000 states | a running handler is bound; a `Stop` ends the worker, also while the main thread keeps the queue mutex for the function it runs and the worker waits for it with a request in its hands, unless the worker overwrites the flag; requests are replied to |
| `sockets_quiescent` | two threads, one of which also does what the heartbeat does, four handles, two endpoints, one of them too long, and two filters, which a socket may refuse to set or, half way through a removal, to take back; no operation overlaps a close; 1.2 million states | no socket leaks and none is registered twice; lists, filters and the IPv6 setting agree with the sockets or err to one side: what is listed is attached, what is subscribed is noted; `CloseConnections` leaves no socket; the registry implements `ConnectionService` |
| `receive` | two messages of up to four frames, all shapes, on each socket type; two calls, of one or of two other threads, that change settings or template and overlap each other and the receive, with every flag, every way to reject an argument, sockets that refuse IPv6, valid and invalid templates; log writes that fail before, in or after the line; 3.2 million states | results never mix messages; well-formed messages are delivered once and in order unless their log entry failed; when no `zeromq_set` is running and none failed, each setting is one that was asked for, and rejected flags change nothing; entries follow the template in force, and the log has what was returned |
| `request_checks` | every document of present, absent, right and wrong entries, ids of 0 to maximum + 1, up to two parameters; every text of up to three characters printed by a function that aborts, on an empty, an unfinished and a finished line | rejection exactly of invalid documents, correlation of replies, history of aborted functions |
| `call_function` | every declaration of up to two return values and two inputs over six types, every parameter text | see the component table |
| `waves` | two calls on each of 89 heaps: containers of one to four rows, one of them with layers, whose waves are text, numeric, complex, data folder or wave reference waves, null, empty, free, shared or locked; waves of every kind with every optional property; messages of two and three frames, own and foreign; sends that fail at any frame; 540 000 states | rows are converted in order and nothing else changes; a send returns 0 exactly if the whole message was sent; reference counts are exact; documents can be read back |
| `lifecycle` | main thread, heartbeat and another thread, three notices, IDLE events that may fail; fairness; 33 000 states | notices are kept once and in real-time order and reach the history, unless an IDLE event has failed; CLEANUP ends and leaves neither thread nor socket |
| `stop_lost`, `idle_stuck`, `stale_pointer`, `payload_rows` | smallest instances; for `payload_rows` that of `waves` | expected violations, section 5 |

Why the bounds are enough. The handler has one worker, one main thread and one mutex of each kind; one preemptive thread is
enough to contend with the main thread in `Start` and `Stop`, and one request of each verdict drives every path while others
are queued. Requests are sent once, so the state space is finite without further bounds. Functions that start the handler
take part only in `handler_live`, where `StartApart` keeps their start from overlapping a stop: without it the instance
deadlocks (section 5), and `handler_core`, where starts and stops overlap at will, has functions that nest IDLE.
`sockets_quiescent` has as many handles as socket types, so that addresses are reused after a close; each socket type is
created by an operation of one thread while the other one works. Two messages are a good one after a bad one, or the reverse,
and every rejected shape of up to four frames. Two changes of the settings are a change and its reversal, or a template and a
flag; the order of assignments inside of `ApplyFlags` needs one call, a mixture of two calls needs two. The two threads are
symmetric. In `waves`, one call fills or resizes a container and the second one uses what it left (receive then send, receive
then serialize, receive into the container of an earlier receive). `MaxInt = 63`, in tenths 630, lies above all flags, so
that 32 is an unknown flag and 63.5 is out of range. In `request_checks` an `int` has the eight values from -4 to
`MaxInt = 3`, and versions 0, 1, 2 and 9 stand for the 64 to 32 bit truncation of the version (9 is 1 modulo 8).

Three notices are one before, one during and one after an output of the main thread.

Deadlock checking is off in `request_checks` and `call_function`, whose behaviours are single requests that end, in `waves`
and `payload_rows`, which end with the last call or with undefined behaviour, and in `lifecycle`, which ends with the
unloaded XOP.

Fairness (`MessageHandler!Fairness`). Weak fairness of a thread's unblocked steps: the operating system schedules threads.
Strong fairness of steps that need a mutex: the worker releases the server mutex after each timeout and takes it again, so a
waiting thread is enabled again and again but not continuously. `std::recursive_mutex` promises no fairness, so this is an
assumption, not a fact of the code. Strong fairness of IDLE events: Igor Pro sends them whenever no function runs. Called
functions return, whatever functions of the XOP they call before (strong fairness of `FunctionReturns`: a function that is
inside of `zeromq_handler_start` cannot return at that moment). `Lifecycle!FairSpec` assumes the same of the heartbeat, of
the notice queue's mutex and of IDLE events, that `HandleAllQueuedMessages` returns or throws, and nothing about when, or
whether, the XOP is unloaded. Nothing is assumed about users and peers.

## 4. What is proved

Every safety invariant of the passing runs but one, `DocumentsReadBack`, both action properties (`NoRequestVanishes`,
`CloseClosesAll`) and both refinements are theorems, for every value of the constants. Assumptions: those named in the
modules (the constants have their types, the free-mutex, no-request and no-socket values are none of the real ones, the
worker is not an Igor thread). No bound on requests, peers, threads, handles, endpoints, filters, messages, declarations,
waves or notices. Where a theorem assumes more, its statement and the text below say so.

`MessageHandlerProofs`:

* `TypeCorrect`: `Spec => []TypeOK`. `TypeOK` is not inductive: `WorkerPush` appends `msg`, which must be a request.
  `LockInv` adds that, and the mutex discipline: `threadMutex` belongs to the thread that joins; the main thread owns the
  queue mutex exactly while it is in `apply_to_all`; inside of the IDLE handler the guard is set, and the main thread is in
  no XOP function unless a requested function called it.
* `RunsUntilStopped`: `Spec => []WorkerRunsUntilStopped`. Needs `FlagInv`: past its initialisation a live worker sees the
  flag set only while some `Stop` holds `threadMutex`. This is why resetting the flag in the worker is needed in the code as
  it is.
* `DeadlockFree`: no set of threads waits for itself if requested functions call nothing but `DoXOPIdle`
  (`FunctionCalls \subseteq {"Idle"}`), or if they may call `zeromq_handler_start` too and either there are no preemptive
  threads or no start overlaps a stop (`StartApart`). With `FuncInv` (a thread that runs a function is not in `Stop`, and is
  in `Start` only while no other Igor thread is in the XOP) the lemma `NoCycle` shows: the owner of the queue mutex waits at
  most for the worker in a receive, and a worker in a receive waits for nobody. Without the assumption the statement is
  false, see section 5.
* `RunningIsBound`: `Spec => []RunningHandlerIsBound` without preemptive threads (`IgorThreads = {}`) or if no start overlaps
  a stop (`StartApart`), whatever requested functions call. `CloseInv`: who is about to close the sockets has joined the
  worker. Without either the statement is false: its `zeromq_stop` may join the worker, the main thread start the handler
  again, and the first thread then close the sockets (section 5).

`RequestServiceProofs`:

* `HandlerImplementsService`: `Spec => ImplementsService`, the refinement of `RequestService`, without an assumption on what
  functions call. The mapping is the one of `Service` in `MessageHandler`; each step of the handler is a step of the service
  or a stutter (`StepSimulation`). Needed are `FreshInv` (a request is at one place only between the socket and the queue,
  and not yet seen: this is what "at most once" rests on) and `RunInv` (a request that was refused does not run), besides the
  mutex discipline of `LockInv`, by which the front of the queue stays while it is executed.
* `HandlerKeepsRequests`: `Spec => NoRequestVanishes`, again whatever functions call. The service begins where a request is
  taken from the socket and may stutter; this theorem says of each step where requests go: from the socket into the worker's
  hands or the queue, from there to a reply or an EMERGENCY_OUTPUT, and never back or out, unless the step closes the socket.
  `BoundInv`: nothing has arrived at a socket that is not bound.

`SocketsProofs`:

* `SocketsTypeCorrect`, and
* `NoSocketLeaks`: `Spec => []RegistryOwnsSockets`, for any overlap of creation, use and close. It is inductive together with
  `TypeOK`: creation and close change pointer and socket in one critical section, and what an operation does with a stale
  pointer (lemma `OptionStep`) changes options of a socket only.

The others assume `QuiescentClose`: the callers let no operation overlap a close. Without it the statements are false, see
`stale_pointer` and the filter of `GlobalData.cpp:161` below. `NoSocketLeaks` and `QuiescentRegistryMatches` hold for options
that are refused at any operation. The code passes valid options of the right type and size to open sockets; libzmq refuses
these only when the process runs out of a resource or the context is terminated. Where a refusal breaks a promise, the
theorem excludes the kind of operation it breaks it for from `Refusable`, and no other.

* `QuiescentRegistryMatches`: `Spec => []RegistryMatchesSockets`, for any `Refusable`: endpoints too long for
  `GetLastEndPoint` are the only ones a list lacks, and an unsubscribe that fails part-way leaves filters noted that the
  socket no longer has, never the reverse; if removals are not refused (`RemovalsSucceed`) both have the same filters; and
* `QuiescentCloseClosesAll`: `Spec => CloseClosesAll`. Both rest on `QuietInv`: a thread that closes runs alone; a pointer
  that was fetched is the registry's and not null; and once the loop over the sockets has begun, the filters are gone and the
  sockets of the rounds before are closed (`ThreadOK`). The last conjunct is why the loop leaves nothing behind. The
  ownership of `NoSocketLeaks` separates the sockets of different types, so that a change of one leaves the lists of the
  others right.
* `QuiescentIPV6Uniform`: `Spec => []IPV6Uniform`, if one thread at most toggles the setting (`OneToggles`) and no socket
  refuses it (`"toggleIPV6" \notin Refusable`): `ToggleIPV6Support` visits the sockets one after the other, and two threads
  that toggle to different values may leave them mixed. `IPV6Inv`: the sockets before the place of the toggle exist and have
  the new value; when nobody toggles or closes, all open sockets are without IPv6, or all types have a socket and these have
  the same value (`Agree`: a socket is created without IPv6); while the sockets are closed, those that are left agree.

* `QuiescentImplementsConnections`: `Spec => ImplementsConnections` if sockets refuse filter operations at most
  (`Refusable \subseteq {"addFilter", "removeFilter"}`), the refinement of `ConnectionService`. What callers see of a socket
  (`View`) is what the library has under the registry's pointer, and a socket without attachments if the pointer is null, so
  that creating a socket is a stutter (`ViewOfRegistry`). An operation takes effect in its second critical section, where it
  uses the pointer it fetched in the first one: `QuietInv` says that this is still the registry's. A close takes effect when
  it is called: while it runs `View` already shows no connections and its rounds are stutters; `ThreadOK` and `ClearInv` (a
  closed handle is attached to nothing) give that after the last round lists, filters and settings are what was promised
  (`SeesCloseEnd`). A toggle is one step per socket (`SeesToggle`). The library refuses a bind exactly when the service does
  (`AttachPossible`): the ownership of `NoSocketLeaks` makes a conflict in the library one of the lists.

`LifecycleProofs`:

* `NothingLeft`: `Spec => []NothingAfterCleanup`. `CleanupInv` adds that the heartbeat is gone as soon as CLEANUP has joined
  it, before the sockets are closed: a heartbeat that polled before could otherwise create the publisher socket again.
* `NoticesOrdered`: `Spec => []NoticesKeptInOrder`. The main thread prints its own notice after it has emptied the queue but
  without the queue's mutex, so other notices may be queued in between and then follow it. `NoticeInv` has the reason why
  this keeps the order: from the moment the queue was empty on, all notices that had returned when the main thread's call
  began are in the history (`MainFlushed`). `Inserted` is the lemma on sequences behind it.
* `LifecycleTypeCorrect`: `Spec => []TypeOK`.

`ReceiveProofs`, for any set of message shapes, flags and templates:

* `ReceiveTypeCorrect`, and
* `MessagesNeverMixed`: `Spec => []ResultsDoNotMixMessages`. The result of a call is taken from `stream`, so the
  strengthening is about the stream (`StreamOK`): frames linked by `more` belong to one message, and the last frame has no
  `more`. The first message of the stream may lack its beginning, which is what a rejected message leaves. Where a message
  ends is the least position without `more`; the library's well-foundedness of the natural numbers (`LeastElement`) takes the
  place of an induction over the frames.
* `MessagesDelivered`: `Spec => []WellFormedDelivered`. `StreamInv` (the frames of a message follow each other, and a message
  whose beginning is missing is not well-formed) and `DeliveryInv` (every well-formed message before the first one of the
  stream was returned, is being returned, or lost its log entry; the results have increasing messages). Lemma after lemma
  shows of each receive function what it may do to a stream (`Fate`).
* `LogFollowsTemplate`: `Spec => []EntriesFollowTemplate`. The property speaks of lines that are written; `LogOK` adds that
  the template in `sink` has its marker in the file and that no entry after it has another one, so that the next entry
  follows it. A template whose marker was written but whose log could not be closed has a marker and is not in force;
  `MarkerWritten` shows that this does no harm.
* `LogIsComplete`: `Spec => []ReturnedIsLogged`. `CompleteInv` relates lines to results: the entries are those of results
  that were logged, in their order, and one that is torn belongs to a result with an error.
* `AllFlagsOrNone`: `Spec => []SettingsApplied`, for any number of threads whose calls overlap. The history variable `period`
  has what was asked for since no call was running. `SettingsInv` is about the assignments still in `todo`, thread by thread:
  whoever concerns a setting has already written a value that was asked for or has it still to write.

`RequestInterfaceProofs`, for any versions, lengths, parameters and width of `int`:

* `RequestTypeCorrect`, `ExactlyInvalidRejected` and `RepliesCorrelate`: `Spec => []` of `TypeOK`, `RejectsExactlyInvalid`
  and `ReplyCorrelates`. The checks of the constructor are a sequence whose first failure decides; they are compared with
  what the documentation says of each entry, entry by entry. `RequestInv` adds that an accepted document has its `messageID`
  in the request while it is queued.
* `HistoryOfFunction`: `Spec => []HistoryIsPrinted`. `HistoryInv` keeps that a history in a reply is the rest of the notebook
  after the lines that were there before the function ran.

`CallFunctionProofs`, for any declaration and parameters:

* `CallFunctionTypeCorrect`, `DocumentedTypesAreChecked`, `CheckedCallsAreConverted`, `ReplyMatches`,
  `StringsAreDisposedOnce`: `Spec => []` of the five invariants of `call_function`. `CallInv` has four parts. `FlowInv`:
  which codes a stage may have, and that no later stage is reached by a declaration that the check refuses. `StringInv`: a
  slot whose handle was disposed of is null, and before the destruction every string is in a slot or disposed of;
  `ReturnInv`: the single returned string (index 0) is disposed of by a successful reply and by nothing else. `ResultInv`:
  the values in the reply are those of the declaration in its order. The order of inputs passed by reference is that of their
  positions (`Nth`).

`PayloadProofs`, for any waves that Igor Pro can have (`IsHeap`: a wave has the data of its type and size; `HeldByRows`: a
free wave has as many references as rows that refer to it), texts and messages of other publishers:

* `PayloadTypeCorrect`, `RowsHoldTheirWaves` and `RowsAreConverted`: `Spec => []` of `TypeOK`, `RowsHoldWaves` and
  `RowsConverted`. `PayloadInv` adds that a conversion that has begun has a container with a row for each frame
  (`TargetInv`), and states `RowsConverted` in parts that hold between two rows. `ContainerResized` is about cutting a
  container: free waves whose last row goes are gone, the others have the references that are left. `NullRowFilled` is about
  the new wave of a null row. `FrameStored` shows that a wave with the size of its frame holds it after the copy; a copy
  beyond the end of a wave leads to `"undefined"`, of which nothing is claimed (`payload_rows`).
* `ZeroMeansWholeMessage`: `Spec => []ZeroMeansSent`, wherever a send fails. `MessageOfRows`: an accepted container's message
  has the contents of its rows.

They are theorems of `Payload!Spec`. `WaveCalls` adds only a call that reads waves, but reaches `SerializeWave`, where a
theorem cannot be checked. Free waves that are containers themselves are left out of `IsHeap`; of the waves this code makes,
none is (`NewRowWave`).

Only model-checked: liveness under fairness, which the prover cannot treat, and `DocumentsReadBack`, which is about the
recursive operators of `SerializeWave` and their reader.

## 5. Where the code and its documentation disagree

As runs that TLC refutes (the heartbeat has the race of `stop_lost` too, `HeartbeatPublisher.cpp:26`; `CleanupEnds` excludes
it):

* `stop_lost` (`MessageHandler.cpp:27`): `Start` directly followed by `Stop`. The new worker resets the flag that `Stop` has
  just set; `join()` never returns.
* `idle_stuck` (`ZeroMQ.cpp:36`): an exception of the log entry in `HandleAllQueuedMessages` leaves `idleInProgress` set for
  good.
* `stale_pointer` (`SocketWithMutex.h:7`): `zeromq_stop` between the two critical sections of `GET_SOCKET`.
* `payload_rows` (`send_struct.cpp:178`): the wave of a numeric row gets as many points as the frame has whole elements, and
  all bytes of the frame are copied into it. Three bytes into 16 bit integers write beyond the end; a frame for complex
  integers, which have no element size, divides by zero.

Met while modelling, and without a run:

* The main thread starts the handler after a `zeromq_stop` of a preemptive thread has joined the worker and before it closes
  the sockets (`zeromq_stop.cpp:13`). The handler goes on without the bind that `Start` insists on, and answers nobody.
  `MessageHandler` shows it when `StartApart` is `FALSE` and `IgorThreads` is not empty: `RunningHandlerIsBound` fails.
* The exception of `idle_stuck` skips `OutputQueuedNotices` (`ZeroMQ.cpp:34`), in this IDLE event and in all later ones;
  queued notices wait until the main thread outputs one of its own. `NoticesAppear` is about IDLE events that have not
  failed.
* A requested function that calls `zeromq_handler_stop` (`ConcurrentQueue.h:64`) joins a worker that may wait in `push` for
  the queue mutex the main thread holds. `MessageHandler` shows it when `FunctionCalls` contains `"Stop"`: `NoDeadlock`
  fails.
* A requested function that calls `zeromq_handler_start` waits for `threadMutex` (`MessageHandler.cpp:46`) while the main
  thread holds the queue mutex. If a preemptive thread is in `zeromq_stop`, it has `threadMutex` and joins a worker that
  waits in `push`: three threads in a circle. `MessageHandler` shows it when `FunctionCalls` contains `"Start"`,
  `IgorThreads` is not empty and `StartApart` is `FALSE`. The runs and `DeadlockFree` have functions that call nothing but
  `DoXOPIdle`, no preemptive threads, or callers that keep starts and stops apart.
* A complex wave is read as if all real parts came before all imaginary ones (`SerializeWave.cpp:343`), but Igor Pro
  interleaves them; the document of a complex wave with more than one point mixes them up. `DocumentsReadBack` excludes these
  waves (`Legible`).
* Text elements with NUL bytes are cut at them, and the ones after them shift by as many places (`SerializeWave.cpp:262`);
  excluded likewise.
* A wave reference wave that contains itself is serialized without end (`SerializeWave.cpp:182`); no heap of the runs has
  one.
* The columns of a container are checked, its layers and chunks are not (`send_struct.cpp:27`): of a container with layers
  only the rows of the first one are sent. `ZeroMeansSent` and the proofs are about these rows.
* An empty payload is sent by `zeromq_client_send` and `zeromq_server_send`, and reported as an error
  (`HelperFunctions.cpp:342`: the number of bytes must be positive). `ZeroMeansSent` allows it for empty payloads only.
* A `zmq_send` that fails after earlier ones with `ZMQ_SNDMORE` (`HelperFunctions.cpp:383`) leaves their frames with the
  library, and the next message continues them. `Payload` models it for the publisher (`queued`); the caller is told of the
  failure, not of the frames.
* The string an aborted function leaves in its single return value is disposed of by nobody: the destructor frees the
  parameters and not `m_retStorage` (`CallFunctionParameterHandler.cpp:215`). `StringsDisposedOnce` states it.
* An endpoint of 256 bytes or more is bound or connected, and then `GetLastEndPoint` throws (`HelperFunctions.cpp:233`): the
  caller gets an error, and the list that `zeromq_handler_start` and the heartbeat look at lacks the endpoint.
  `RegistryMatchesSockets` allows it for these endpoints only.
* Overlapping calls of `zeromq_set` (`zeromq_set.cpp`, marked thread safe) write flag after flag: the result may be a mixture
  of both, in which every setting is one that was asked for (`SettingsApplied`). A toggle of IPv6 that a socket refuses
  leaves some sockets with the new setting (`HelperFunctions.cpp:242`).
* `zeromq_set` with the default and the logging flag turns logging off for a moment (`HelperFunctions.cpp:190`); a message
  received then by another thread is not logged. `ReturnedIsLogged` speaks of messages that were received while logging was
  on.
* A template may have the key `remote identity`, which an entry of the server socket then replaces (`Logging.cpp:120`).
* The comment at `HelperFunctions.h:59` says that zero is returned for NaN, the one at line 51 that it is an error;
  `lockToIntegerRange` rejects NaN.
* `CleanupString` leaves a text of white space only as it is, although its comment (`HelperFunctions.cpp:664`) says that
  leading and trailing white space is removed; and the history grabber works in whole lines: what was on an unfinished line
  before the function ran is part of the reply, an unfinished last line is not (`HistoryGrabber.cpp:19`). `HistoryIsPrinted`
  asks for the printed text when the function began and ended with a line of its own.
* After an exception the receive functions do not close the ZeroMQ message they have received (`zeromq_client_recv.cpp:42`);
  its memory is not modelled.
* A reply to a peer that has left, and a result that is not UTF-8, end in the branch "This must NOT happen!"
  (`MessageHandler.cpp:116`); the peer gets no reply. `RequestService` allows it (`GiveUp`).
* A filter added between the removal of the filters and the close of the subscriber socket stays in `m_subMessageFilters`
  (`GlobalData.cpp:161`); it is the reason why `RegistryMatchesSockets` needs quiescent closes.
* A subscriber receive that rejects a message leaves its last frames (`HelperFunctions.cpp:511`): frames 3 and 4 of a
  rejected message come back as filter and payload of a later call. Results still come from one message.
* Replies to *rejected* requests carry no `messageID` (`MessageHandler.cpp:80`), although the Readme says it is returned if
  present; `ReplyCorrelates` is about accepted requests.
* The Readme lists the version as the string `v1`; the code wants an integer and truncates it to an `int`
  (`RequestInterface.cpp:100`).

## 6. Not modelled

* `libzmq`, the XOP toolkit and Igor Pro: external; their effects are the actions and operators marked so in the map.
* Function registration (`functions.cpp`, `functions.h`), tables without state, and the texts of errors and debug output. The
  return codes of exceptions are part of the functions in `Payload` and `Receive`.
* The bytes of the log file and the creation of its directory (`CreateDirectory`, `EnsureDirectoryExists`): file system
  calls.
* The digits of formatted numbers and the quoting of strings in JSON: `FormatNumber` keeps what 15 digits of a double lose,
  and no more.
* Code without a caller: `try_pop`, `SetDimensionLabels`, `WaveClear`, `IsFreeDataFolder`, the data folder and numeric
  instances of `GetWaveElement` and `SetWaveElement`, and `lockToIntegerRange<bool>`.
* Memory of messages and handles, but for the string handles of `CallFunction` and the reference counts of free waves.

## 7. Plan

Done, in this order: `MessageHandler` with `RequestService`, `Sockets`, `Receive`, `RequestInterface`, `CallFunction`,
`Notices` with `Lifecycle`, then `Settings` under `Receive`, `Waves`, `Payload` and `SerializeWave` with `WaveCalls`, and
`History` under `RequestInterface`, and the proofs of section 4.

The refinement of `ConnectionService` and the action property `NoRequestVanishes` came last, with their proofs.

Possible further work:

1. Action properties of the other components: sends and receives of `Payload` change no wave but those they convert
   (`RowsConverted` says it of whole calls), and a receive function consumes frames in the order of the stream.
2. An abstract request and reply of which `RequestInterface` and `CallFunction` are the two halves.

Liveness and `DocumentsReadBack` stay with TLC: the prover treats neither fairness nor recursive operators.
