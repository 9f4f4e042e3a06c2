# proxy-fmu in TLA+

A formal model of [proxy-fmu](../src/README.md): TLA+ modules translated from
its C++ sources, TLC configurations that check them on small instances, and
theorems that TLAPS proves for every value of the constants. Paths below are
relative to the repository (`src/` here); `proxy_slave.cpp:94-97` names lines.

- [The system](#the-system): inventory of components, state, operations, hazards
- [Modules](#modules): what models what
- [Runs](#runs): what TLC checks, bounds, fairness
- [Proofs](#proofs): what TLAPS proves, and how
- [Findings](#findings)
- [Not modelled](#not-modelled)
- [Plan](#plan)

## The system

proxy-fmu runs every FMU instance in a process of its own. The application (the
*host*) sees a `slave`; behind it is one child process, reached over TCP with
Thrift, that loads the FMU.

| component | source | state | operations |
|---|---|---|---|
| child process | `tool/proxyfmu.cpp` (`main`, `run_application`) | bind attempt, server socket, connection being served, exit status, standard output | pick a port and bind (10 attempts), announce the port, serve one client at a time, stop, exit |
| FMU service handler | `tool/handlers/fmu_service_handler.cpp` | `slave_`, `modelName_` | `instantiate`, 19 forwarding calls, `freeInstance` |
| process launcher | `process_helper.hpp` (`start_process`), a thread per instance | `bound`, references to `port`, `mtx`, `cv` of its creator | launch the child, read its output, publish the port, wait for its exit, report a failure |
| proxy slave | `client/proxy_slave.cpp` | `thread_`, `transport_`, `client_`, `freed` | constructor (local or remote), 13 calls, 6 state calls, `freeInstance`, destructor |
| booter | `run_booter_application`, `boot_service_handler.cpp` | threads and temporary directories of all children | `loadFromBinaryData`, shutdown |
| FMI 2 slave | `fmi/fmi2/fmi2_slave.cpp` | FMI instance, `setupComplete_`, `simStarted_`, `freed`, `savedStates_`, `savedStatesFreelist_` | lifecycle calls, get/set, save, overwrite, restore, release, export, import |
| FMI 1 slave | `fmi/fmi1/fmi1_slave.cpp` | FMI instance, `start_time_`, `stop_time_`, `freed` | lifecycle calls, get/set; state calls throw |
| FMU loading | `fmi/fmu.cpp`, `fmi*_fmu.cpp`, `fmi*_model_description.cpp` | FMI context, model description, temporary directory | load, describe, create a slave |
| temporary directory | `temp_dir.hpp` | a path with six random digits | create, remove with the last owner |
| proxy FMU | `client/proxy_fmu.cpp` | FMU path, description | create a proxy slave |

How they interact: the constructor of a local proxy slave starts the launcher
thread and sleeps on a condition variable until that thread has read
`[proxyfmu] port=` from the child's standard output; then it connects and sends
`instantiate`. From there on every call is one request and one reply.
`freeInstance` makes the child answer, leave `serve()` and exit, and joins the
launcher thread, which ends when the child has. Remote slaves send their FMU to
a booter instead, which writes it to a temporary directory, runs the launcher
thread itself and replies with the port; they have no thread to join. On either
side `loadFmu` unpacks an FMU into another temporary directory, which the `fmu`
and its slaves share.

What is hard here:

- **concurrency**: three kinds of actors (host thread, launcher thread, child)
  hand over one integer through a pipe, a mutex and a condition variable, the
  last two of which live in a block that the host thread leaves as soon as it
  has the integer; the booter adds a server thread and a main thread, and two
  vectors without a lock;
- **failure**: every step of the constructor can fail after the thread was
  started; a child, a client or the booter can end at any moment; an FMU may
  refuse any call, also the one that frees a saved state;
- **ordering**: announce only after listen; reply to `freeInstance` before the
  process goes; join only after the exit; tell every client of a launched child
  before the booter's server ends; remove a directory only after its last user;
- **reuse**: indices of saved states are recycled, and the flags beside the FMU
  must travel with each state; ports and names of directories are drawn at random;
- **two versions of FMI** behind one interface, one of which has no experiment,
  no initialization mode and no saved states.

What makes each component correct:

| component | properties |
|---|---|
| child and launcher | an announced port is listened on; no wakeup is lost; dead objects are touched only after an abnormal exit |
| proxy slave | talks to its own child; a constructor and a `freeInstance` end; nothing is left behind; the host survives, but for three failures |
| service handler | never calls a slave that is not there; never overwrites one of a host that lives |
| FMI 2 slave | exclusive indices, no slot lost, live memory behind every index, flags that agree with the FMU and with the caller's calls: together, a store of whole states |
| booter | loads do not overlap; the port it tells is listened on; a child finds its FMU; no child is abandoned by a shutdown; it ends |
| remote proxy slave | a constructor ends whether the booter runs, comes late or is stopped, and although other clients die; a freed child exits, so that the booter can end |
| calls of either slave | proxy, wire, handler and slave together are a slave: a call happens at most once, a true answer means it happened, the simulation starts with the experiment asked for |
| state calls through the proxy | indistinguishable from those of a slave in the caller's process |
| FMU loading, directories | files are there as long as they are needed, and no longer; each handle is freed once |
| model description | lists each variable once, in order, with its reference, type and start value |

`PROJECT.json` lists the hazards, each at its line, with the properties aimed at it.

## Modules

```
ProxyProcess <- StartProcess <- LocalProxy  <- MCLocalProxy           (TLC)
                             |              <- LocalProxyProofs <- LocalProxyEndProofs (TLAPS)
                             <- Booter      <- MCBooter, BooterProofs
FmuFiles                                    <- MCFmuFiles, FmuFilesProofs
ModelDescription                            <- MCModelDescription, ModelDescriptionProofs
SlaveCalls  <. ProxyCalls                   <- MCProxyCalls, ProxyCallsProofs
SlaveStates <. Fmi2Slave                    <- MCFmi2Slave, Fmi2SlaveProofs
               Fmi2Slave <. ProxyStates     <- MCProxyStates, ProxyStatesProofs
                                                  (<. Fmi2SlaveProofs)
```

`A <- B` is B EXTENDS A; `A <. B` is B instantiating A with a refinement mapping
(and, in `ProxyStates`, as a component too). `MC` modules are for TLC, `Proofs`
modules for TLAPS. `ProxyStatesProofs` instantiates `Fmi2SlaveProofs` with the same
mapping, and has its theorems about the state calls of a proxy.

### ProxyProcess

The child. `child[i]` is where the process is (`started`, `binding`, `bound`,
`serving`, `stopping`, `exited`); `Main`, `Bind`, `BindFails`, `PreServe`, `Return`
are `main` and `run_application` in order. The Thrift server is external: `Accept` and
`ClientGone` are TSimpleServer's loop, which serves one connection until it closes;
`Instantiate`, `Forward` and `FreeSlave` are the handlers, under `Handle`. A client
that has connected waits in `backlog` until it is accepted. The kernel took its
connection and its request when it connected, so that a client which is gone by then
is accepted too, and its request read and handled; `ClientGone` is the end of the
stream, after the last request. `pipe[i]` holds the lines written to standard output
that matter: the port (flushed by `endl`) and `freed`, which has no line end and comes
out when the process exits. The network is `conn`, `backlog`, `call`, `reply`: a
client has at most one request outstanding. `Exit` closes the sockets. The three
properties of a session (`ConnectedToOwnChild`, `NoCallWithoutSlave`,
`InstantiateFindsNoSlave`) are stated here, for local and remote clients alike. The
third holds of neither in full: `LocalProxy` narrows it to `SlavesAreKept`, and of
remote clients it is proved when no child crashes.

`Faults` says what the environment may do beyond refusing ports: `"launch"` (no
executable, no process, no thread or directory for a load of the booter), `"crash"` (a
child dies at any point), `"fmu"` (loading or calling an FMU throws), `"client"` (the
process of a remote client ends). A missing FMU file and an exhausted bind loop are
always possible.

### StartProcess

The launcher thread, one action per stretch of code that other threads cannot
observe from inside: the critical section that writes the port, `notify_one`
after it, the wait for the child, the second critical section that writes -999.
`scope[i]` says whether the creator's `mtx` and `cv` still exist. A use of a
dead object is undefined; the model takes the outcomes it has in practice: the
call has its normal effect, or never returns (`stuck`).

`TerminateHost` is `std::terminate`: an exception that leaves the thread
function, a `std::thread` destroyed while joinable, an exception in the
destructor.

### LocalProxy

The proxy slave without a `remote_info`: `Construct`, `Lock`, `Sleep`,
`LeaveScope`, `CheckPort`, `ThrowUnableToBind`, `Open`, `InstantiateReturns` are the
constructor; `Invoke`/`InvokeReturns` every method that is one request;
`FreeInstance`/`FreeReturns`/`Join` and `Destroy` the end of the object, with
`inDtor` telling whether an exception has somewhere to go. `Open` connects to
*whoever* listens on the port at that moment. `SpuriousWake` is what a condition
variable may do.

The composition is a plain disjunction: a step of the host (while it is up) or
of a child. Several instances share the host, the ports and the network.

### Booter

`proxyfmu boot` and its clients, on the same `StartProcess` and `ProxyProcess`: here
the host of the launcher threads is the booter, and the connections belong to clients
that are processes of their own. `main` is `run_booter_application` after it has
started the server thread; `server` is that thread, `current` the one client it
serves. `Waits` is who it may serve: a client that is attached, or one that died after
it sent its load, which is run all the same. A load goes through `loadFromBinaryData`
in the order of its lines: `Load` (directory, file, thread; if one of them cannot be
made the load is `thrown`, an exception for its client), `LoadLock`, `LoadSleep`,
`LoadReturns`; `told` is its reply, `dirs` the directories on disk. `PressEnter`
interrupts the server if it listens already: interrupting it earlier is lost, since
the socket the interrupt is written to does not exist before `listen()`. A request
whose handler runs is finished and answered before `serve()` returns; `LoseBooter` is
what happens to the clients behind it. `JoinThreads` is the handler's destructor.

The client dials (`Dial`, `LoadUndialed`: 600 attempts in the code, `MaxRetries`
here), loads, connects and calls; it has no thread, so that every exception
reaches its caller. `Die` ends its process.

### FmuFiles

Who owns what an FMU needs on disk and in FMI Library. Each element of `Loads` is
one call of `loadFmu`, in a process of its own or not, with the `fmu` it makes and
`Slaves` it creates. `owners` is who holds a `shared_ptr` to the context and the
`temp_dir`; `Share` passes them on, and the last one to let go removes the
directory. `stage` and `slave` follow the constructors statement by statement:
what is open when one throws is not closed by a destructor. `disk` says whose
files are in a directory, so that two loads that drew the same name overwrite and
remove each other's files. The parse of a missing or foreign description yields a
null handle, which FMI Library's next call does not survive (`Dies`).

### SlaveCalls and ProxyCalls

`SlaveCalls` is the promise of `fmi/slave.hpp:20-43`, with the answer `false`
leaving open whether the FMU has done anything. `ProxyCalls` is the chain: the
method of `proxy_slave`, the message, the method of `fmu_service_handler`, the
method of `fmi1_slave` or `fmi2_slave`, the reply. `Call`, `Handle`, `Return` are its
steps, `Broken` an exception of the Thrift client. Values are those of a set of
variables; lists of references and of values have their lengths, since the proxy
indexes one with the other. What the FMU does with a call is `Ask`: it may take it
only in a phase that FMI allows, and may say "warning", which the code counts as
failure, whether it took it or not. `asked` is a history variable: the experiment
set up last before the start.

The refinement maps a reply on the wire to the answer the caller is about to get,
and a dead child to a broken slave.

### ModelDescription

`create_model_description` of both versions as a loop over the variables of the
parsed XML. What the code copies unchanged is one field (`name`, `time`).
`typeAttribute` is the variant with its index, which `is_real` and the others test.
Members that are not initialized start with any value of their type.

### SlaveStates and Fmi2Slave

`SlaveStates` is the promise of the state calls in `fmi/slave.hpp:45-50`: a store
of whole states, one per handle. `Fmi2Slave` is the class: the vector of slots,
the queue of free indices (indices count from 0, `Slot(i)` is `at(i)`), the
memory the FMU keeps its copies in (`heap`), and the two flags. The FMU is
external: it has a mode and a version of everything it computes with, takes a
call in the modes FMI allows, and may answer with a warning (done, but counted as
a failure by the code) or an error (nothing done, or unusable until it is given
an earlier state). The caller is its knowledge: the phase its successful calls
have reached, the handles it holds and an export. It follows the interface: an
index is used until it is released, nothing is called after `freeInstance`.

`Store` instantiates `SlaveStates` with the refinement mapping `Current`,
`Stored(h)`, `Exported`; `StatesAreStored` is the abstract specification.
The asserts of `fmi2_slave.cpp` are not guards (a release build has none);
`FlagsFollowCalls` implies them.

### ProxyStates

The six state calls through the chain. `Slave` instantiates `Fmi2Slave` as the slave
in the child: the handles it answers to are the handler's (`answered`), and its
exported state is the local variable `es` of the handler's method. The caller
holds indices (`held`) and an exported state (`blob`) of its own, and all that
connects the two are integers and Thrift structures: `OnTheWire` and `OffTheWire`
copy the fields, `Addressed` is the state an index on the wire stands for in the
child. The refinement instantiates `Fmi2Slave` again, with what the caller holds.
`Wants`, `ExportedStates` and `Messages` are the types of calls and messages;
`NoneAssumption` keeps the value for "nothing" apart from all of them.

## Runs

| run | instance | shows |
|---|---|---|
| `local_proxy_faults` | 2 instances, 2 ports, 2 bind attempts, all faults; instances symmetric | type invariant and the safety properties of the handover, the session and the end; the host ends by one of three failures only |
| `local_proxy_ends` | 2 instances that compete for 1 port, 1 bind attempt, all faults, fairness | `ConstructorEnds`, `FreeInstanceEnds`, up to the end of the host, a thread stuck on a dead object, or crossed slaves |
| `host_failure` | 1 instance, failing FMU | **violated**: the host terminates, see [Findings](#findings) |
| `fmi2_states` | 2 handles, 3 cells, 1 version step, no exports; symmetric | table, memory and flags; the refinement with reused indices |
| `fmi2_exports` | 1 handle, 2 cells, exports | import accepts only intact exports of the same FMU; the refinement with exports |
| `booter_faults` | 2 clients, 2 ports, 1 bind attempt, 1 attempt to reach the booter, all faults, at most one client dead and one child ended abnormally; clients symmetric | type invariant, four safety properties of the booter, and that no call of a remote client, dead or alive, reaches a child without a slave |
| `booter_ends` | 2 clients that may die, 1 port, 2 attempts to reach the booter, no other fault, fairness | constructors end although other clients die, a shutdown in the middle of loads leaves no client's child behind, the booter ends once its children are freed |
| `files_owners` | 2 loads of 2 slaves, 2 names, crashes, locked files; symmetric | files, directories and handles |
| `files_missing` | 1 load | **violated**: a missing file is not reported by an exception |
| `calls_faults` | 2 variables, 2 values, lists up to 2, both versions, a child that may die, fairness | the chain implements `SlaveCalls`; calls end |
| `proxy_states` | 2 handles, 2 cells, exports; symmetric | state calls through the proxy are those of a local slave |
| `description_lists` | lists up to 3 of all types, both versions | the description lists what the FMU has |

**Bounds.** Two instances are needed for a port taken over by a neighbour and for two
clients on one child or one booter. What a third adds to two local slaves is an end of
the host that neither of them causes (see [Findings](#findings)); the theorems are
about any number. Two ports allow a conflict and a way out; two attempts give the bind
loop a first and a last round (the other runs have one: the loop is the child's). The
runs with fairness have one port, which the two instances take from each other. Two
attempts of a client find the booter at once, after a failure, or never;
`booter_faults` has one, and `FewFailures` keeps it to one client that dies and one
child that ends abnormally, as its six invariants are theorems without that bound.
Three cells let two handles hold copies while one leaks; with two handles the freelist
grows to two, so its order matters. `MaxVersion = 1` tells an old value from a new
one; `proxy_states` does without, as a stale copy shows in its mode and phase there,
and bounds the caller to an export beside at most one index (`ExportsAlone`). Cells
bound how many copies the FMU refuses to free. Two loads of one directory name can
destroy each other's files, two slaves of one `fmu` be destroyed in either order and
on either side of it. Two variables with two values and lists of up to two references
tell a list from its reverse and one that is too short; start and stop times include a
stop time that counts as none. Three variables put an enumeration before, between and
behind others.

**Crossed slaves.** If the child of a slave dies between the announcement of its port
and the connect, another child may have taken the port. The slave is then
connected to that one (`Crossed`), whose server is busy with it and lets its own
client wait, so that a constructor may not return as long as the other
application keeps its slave. `ConstructorEnds` and `FreeInstanceEnds` of
`LocalProxy` except this state. It needs a crash in a window of one step and a port
that comes up again, one of 16384; `ConnectedToOwnChild` says that nothing
else leads to it.

**Deadlock** is checked in `calls_faults`, where somebody can always do something.
Elsewhere the system may really stop: an application frees all its slaves, a
terminated host leaves children waiting, a freed FMI slave takes no call, a
description is complete.

**Fairness.** Threads and processes keep running, and handlers terminate: a step of
the FMU that hangs is outside the model, as the code has no timeout for it.

- `LocalProxy`: weak fairness of each child, each launcher and each host thread
  inside a call. The launcher's `lock_guard` has strong fairness: a mutex that is
  free again and again is obtained, since the creator may wake spuriously without
  end and take it each time. No fairness of what the application calls, of
  crashes, or of spurious wakeups.
- `Booter`: weak fairness of the booter's server and main thread, of the clients
  in a call and of the children; strong fairness of the launchers, for the same
  mutex; strong fairness of `FreeInstance` and weak fairness of `Destroy`, since
  leaving a slave's scope runs its destructor: an application that lives does
  both in the end, between any other calls it makes. Nobody has to press Enter,
  and a client that dies does so unfairly.
- `ProxyCalls`: weak fairness of the child's server, of the reply and of the
  exception of a lost connection.

**Mutants.** Each property of a passing run has a mutant of a modelled definition
that it catches (an operator named in `PROJECT.json`, written just before the
definition it alters), for example a bind loop that goes one round too far, an
announcement of the wrong port, a freelist whose entry stays in place.

## Proofs

`LocalProxyProofs` proves, for every set of instances, ports, number of attempts
and set of faults, seven theorems `Spec => []P`: `TypeOK`,
`AnnouncedPortIsListenedOn`, `NoLostWakeup`, `ConnectedToOwnChild`,
`NoCallWithoutSlave`, `NothingLeftBehind`, `CleanExitLocksNoDeadMutex`. They rest
on `ConstantsAssumption` only. The inductive invariant has five parts:

- `TypeOK`;
- `Handover`: which program counters of creator, launcher and child go together,
  who holds the mutex, that a sleeping creator with a port set is about to be
  notified;
- `Listening`: no two children share a port; every number on its way (socket,
  pipe, variable) is the child's own, until it exits;
- `Requests`: a request or reply exists only in the call that waits for it;
- `Connections`: a client of a foreign child has lost its own, and a child with a
  client past its `instantiate` has a slave.

Each part is preserved by the steps of the child, of the launcher and of the
slave: one lemma per pair. The parts feed each other: `NothingLeftBehind`
needs that a launcher that is done has seen its child exit (`Handover`);
`NoCallWithoutSlave` needs to know to whom a connection leads (`Connections`),
which needs the uniqueness of ports (`Listening`).

`LocalProxyEndProofs` adds `SlavesAreKept` and `HostEndsOnlyByFault`, with two more
parts of the invariant. `Sessions`: as long as the host is up, a child that has a
slave serves the client that instantiated it, until that one has freed it; hence no
second instantiate can be handled there. The hypothesis is needed: see
[Findings](#findings). `Endings`: a child that exits with status 0
was freed by its own client, or by one whose child died late (`DiedLate`); so when a
connect is refused or a connection breaks in `freeInstance`, some child has died
after its port was handed over. An exit status is final and a connected slave never
waits for its port again, so a late death is for ever.

`Fmi2SlaveProofs` proves, for every set of handles, cells and versions, all six
invariants and the refinement `Spec => StatesAreStored`, from
`ConstantsAssumption` and `NoneAssumption`. The invariant `IInv` joins the table
(`NoIndexShared`, `NoSlotLost`), the memory (`HeldStatesLive`) and, for the
current state, every saved one and an importable export, that the flags agree
with the FMU's mode and with the caller's phase (`Follows`). `NewStateStored` is the
heart of it: a new state gets an index nobody holds and disturbs no other slot;
`Untouched` carries everything else over. Each call then has one lemma that both
preserves `IInv` and maps to a step of the store: `SaveState` and
`SaveStateByIndex` to `Save`, a refused restore to `Simulate`, an interrupted
export to `Forget`, and so on.

`FmuFilesProofs` proves the four invariants of `FmuFiles` for every set of loads,
slaves and names. The invariant ties each object's stage to what it owns: who is in
`owners` is exactly who is between the statement that copies its `shared_ptr` and
its end; a handle is open and not freed exactly while its object is alive, or
leaked; a directory with owners is on disk unless another load has drawn it too.
`Alone` is the hypothesis the collision needs: it is about the names all loads
have drawn and never becomes true again once it is false.

`ProxyCallsProofs` proves, for every set of variables, values and times, any length
of lists and either version, the three invariants and the refinement
`Spec => SlaveCalls!Spec`. `Correspondence` says which message may be under way in
which call; `Remembered` that what an FMI 1.0 slave keeps, or an FMI 2.0 FMU was
told, is what the caller asked for last. With these, a step of the handler is
`Perform` (or `Break`), and everything else a `Call`, a `Return` or a stutter.

`BooterProofs` proves, for every set of clients and ports and any number of attempts
and retries, the invariants the runs of `Booter` check and the properties of a
session. The inductive invariant `IInv` has the parts of a local slave's where they
meet the same code, and others where the booter differs:

- `Handover`: as above, between a load and its thread, down to the reply: -999 is
  told only when the thread is done;
- `Listening`: every port number on its way, now up to the client, is the child's
  own until it exits;
- `Serving`: a load runs only for the client being served, and the destructor
  only once the server has returned. `OneLoadAtATime` is this;
- `Directories`: from the start of a thread to the last join. With `Handover` (a
  child that lives has a thread) it gives `FmuFileThere`;
- `Clients`: what the booter has done for a client at each of its steps; it gives
  `UnboundLeavesNothing`.

The other theorems need more. `NoChildAbandoned` does not hold of every environment: a
constructor whose FMU cannot be instantiated leaves its child running, since nobody
frees it. So `RefusedClientsLeaveNoChild` excludes this fault, and only this: launches
may throw and end the booter, children crash, clients die and the booter be stopped at
any moment. `Refusals` says that a client is refused before its load has begun, for
ever, or because its child has exited, or by a booter that was terminated before it
launched the child: the load whose launch throws is the one being served. `Sessions`,
that is `Requests` and `Connections` as above but with clients that die in the middle
of a call, gives `RemoteSlavesReachTheirOwnChild` and `SlaveIsThereForRemoteCalls`
without any hypothesis: what still waits in a backlog is an `instantiate`, and a call
read after its client's death comes after one. `NoRemoteSlaveIsOverwritten` has the
hypothesis that children do not crash (see [Findings](#findings) for what happens
otherwise): `OwnChild` says that then a child which has announced a port exits only
after its slave was freed, hence nobody dials another's child. The properties of these
three are those `LocalProxyProofs` and `LocalProxyEndProofs` prove of local slaves,
the last for as long as the host lives.

`ProxyStatesProofs` proves `Spec => ProxyIsLikeLocal` for every set of handles, cells
and versions. The slave in the child satisfies the invariant of `Fmi2SlaveProofs`
*for what the caller holds*: the proxy instantiates that module with its
refinement mapping (`LocalIndex`, `LocalBlob`), so that `Facts!IInv` is one half of
the inductive invariant. The other half is `Wire`: a request carries the
index or the fields of the export that the caller's method was given, the reply
those the slave has answered, and handler and caller differ only between the two.
A call and its return are stutters; serving it is the step of the local slave, by
one lemma per kind of call (`AskingServed`, `TellingServed`, `ExportServed`,
`SimulateServed`, `ThrowServed`). Once the refinement is there, what
`Fmi2SlaveProofs` says of every slave holds of a proxy: `ProxiedIndicesAreLive`, and
`ProxyStoresStates`, the store of whole states, by citing its theorem.

`ModelDescriptionProofs` proves `VariablesListed` for lists of any length, with the
types of all variables as a lemma: the loop
extends the strictly increasing map from positions in the description to
positions in the XML by one, or skips an enumeration.

Only model-checked are the liveness properties: `ConstructorEnds` (of either module),
`FreeInstanceEnds`, `ShutdownEnds` and `CallsEnd`. Fairness and ENABLED are outside
what the proof system handles. Every other property of a run that passes is a
theorem.

## Findings

`host_failure`: if `transport_->open()` or `client_->instantiate()` throws in the
constructor of a local proxy slave (`proxy_slave.cpp:105-107`), the member
`thread_` is destroyed while joinable, and `std::terminate` ends the application.
Thirteen steps suffice: the child comes up, announces its port, the slave connects,
the FMU cannot be instantiated, the exception reply arrives. The other failure
path of the constructor joins first (`proxy_slave.cpp:95-96`), and the example
expects an exception it can catch (`examples/proxy_test.cpp:86-87`). A failed
launch (`process_helper.hpp:46`) and a `freeInstance` that throws
(`proxy_slave.cpp:228`) end the host as well.

`files_missing`: `proxy_fmu` dereferences the null pointer that `loadFmu` returns for
a missing file in its member initializers (`proxy_fmu.cpp:17`), before it looks for
the file in order to throw "No such file: " (`proxy_fmu.cpp:19`).

Five more observations, which the models contain and no run is spent on:

- The booter prints "Press any key to quit..." (`tool/proxyfmu.cpp:78`), but then joins
  the launcher threads of all children (`boot_service_handler.cpp:45`), and the child
  of a client that died serves on for ever, as only a `freeInstance` stops it.
  `ShutdownEnds` has to except such children: without the exception TLC finds a client
  that dies after it has sent its FMU, and a booter that stays in `joining`.
- `instantiate` overwrites `slave_` blindly (`fmu_service_handler.cpp:22`). With a booter
  it can find one there: a client whose child has crashed connects to the child that
  has the port now, instantiates there and dies; when the client of that child
  connects in turn, the dead client's slave is replaced. Nobody uses it any more.
  Without a crash this cannot happen (`NoRemoteSlaveIsOverwritten`). Local slaves are
  exposed to it after the end of their host only (`SlavesAreKept`, theorem
  `NoSlaveIsOverwritten`): the child of one slave has the `instantiate` of another, crossed
  one in its backlog, a third slave ends the host, for example by a launch that throws,
  and the child goes on to handle that request although nobody waits for the answer.
  TLC finds this with three instances on one port; with the two of
  `local_proxy_faults` nobody is left to end the host, and `InstantiateFindsNoSlave`
  holds. An application that is killed at that moment has the same effect.
- `get_string` of both slaves copies from the FMU's `char` pointers before it tests
  the status (`fmi2_slave.cpp:131-134`, `fmi1_slave.cpp:111-114`). An FMU that refuses
  the read and leaves them null takes the child down, where `service.thrift:20` has
  a status to tell the caller (`Read` of `ProxyCalls`).
- The state calls of an FMI 1.0 slave throw `std::runtime_error` (`fmi1_slave.cpp:177`),
  where `service.thrift:28` declares an `UnsupportedOperationException`
  (`StateCall` of `ProxyCalls`).
- The description of an FMI 1.0 FMU leaves `canGetAndSetFMUstate` and
  `canSerializeFMUstate` uninitialized (`fmi1_model_description.cpp:64`), and may offer
  what every state call refuses (`DescribeFmi1` of `ModelDescription`).

## Not modelled

- The failure to create the launcher thread of a local slave (`proxy_slave.cpp:60`),
  which reaches the caller of the constructor before there is anything to leave behind.
- FMI Library, Thrift, the kernel: external, modelled from how the code uses them.
- Sizes: the 50 MB limit of a frame (`tool/proxyfmu.cpp:65`) and what either side
  does with the rest of a frame that is too large; Thrift's behaviour there is not
  visible in this repository.
- Time: the interval between retries, and FMU calls that do not return. The code
  has no timeouts, so there is nothing to race with.
- Contents: XML, the bytes of an FMU, conversions between the integer widths of
  value references (every reference fits both), messages other than the two the
  launcher reads.
- `proxy_fmu::new_instance` and `get_model_description`: they keep no state. What
  `new_instance` constructs is `LocalProxy` or `Booter`.
- Command-line parsing, the version functions, Windows specifics, build files,
  examples and tests.

## Plan

What is done is described above.

1. *(done)* port handover and session of a local slave, with safety proofs.
2. *(done)* states of the FMI 2 slave: invariants and refinement, proved.
3. *(done)* booter and remote slaves: `Booter`.
4. *(done)* ownership of files and handles: `FmuFiles`, proved.
5. *(done)* the calls through proxy, wire, handler and slave: `SlaveCalls`,
   `ProxyCalls`, refinement proved; FMI 1 slave included.
6. *(done)* state calls through the proxy: `ProxyStates`.
7. *(done)* model descriptions: `ModelDescription`, proved.
8. *(done)* the ends of sessions and of the host: `LocalProxyEndProofs`.
9. *(done)* proofs: the safety invariants of `Booter`, its sessions, and the
   refinement of `ProxyStates`.
10. Left: one abstract session of a slave (absent, ready, in a call, over) that
   `LocalProxy` and `Booter` both implement, so that their common safety theorems have a
   common source.

An abstract specification of the port handover was planned once; what it would
say is `ToldPortIsListenedOn`, `AnnouncedPortIsListenedOn`, `UnboundLeavesNothing`
and `ConstructorEnds`, which the two users of `StartProcess` are checked against
directly.
