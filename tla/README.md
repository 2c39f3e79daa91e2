# A verification development for THU-2020-Sem1

The repository holds the course work of one semester: a software **router** with RIP (C++),
a multi-cycle RISC-V **processor** (Verilog), the **minidecaf** compiler (Java), a **message
board** (Django and Vue), and material that has no state to speak of. This directory models
them in TLA+, checks the models with TLC and proves what matters most with TLAPS.

All paths below are relative to the root of the repository's source tree (`src/`).

## 1. Inventory

### Router (`codes/router`)

| Component | State | Operations | Where |
| --- | --- | --- | --- |
| main program | the routing table, two packet buffers, `last_time` | boot (direct routes, a RIP request per port), 5 s timer, RIP request, RIP response, echo request, time exceeded, net unreachable, forwarding | `Homework/router/main.cpp` |
| routing table | `std::map` from (address, length) to an entry | `update`, `prefix_query`; the response handler writes to it, too | `Homework/lookup/lookup.cpp` |
| RIP wire format | none | `assemble`, `disassemble` | `Homework/protocol/protocol.cpp` |
| checksum, forwarding | none | `validateIPChecksum`, `forward`, `calIpChksum` | `Homework/checksum`, `Homework/forwarding`, `main.cpp` |
| HAL, Linux backend | capture buffers of the ports, ARP table, ARP timers | `HAL_ReceiveIPPacket` (polls, learns and answers ARP), `HAL_ArpGetMacAddress`, `HAL_SendIPPacket` | `HAL/src/linux/router_hal.cpp` |
| HAL, stdio backend | ARP table, end of the input | the calls of `router_hal.h` over capture files with 802.1Q tags | `HAL/src/stdio/router_hal.cpp` |
| HAL, macOS backend | open ports, ARP table, ARP timers, port to poll next | the same calls over libpcap | `HAL/src/macOS/router_hal.cpp` |
| HAL, Xilinx backend | two DMA rings and their counters, ARP table as a FIFO, a 32-bit timer | the same calls on a DMA engine that runs beside the thread | `HAL/src/xilinx/router_hal.c` |
| example programs | `cont`, the packet received last | shell with a signal handler, broadcaster, capture | `Example/*.cpp` |
| emcc backend, data generation, test drivers, set-up | | | not modelled |

A router is one thread. It calls the HAL, which calls libpcap; routers interact by Ethernet
frames only. What is hard here: several routers run the same loop with no agreement on
order, so requests, updates and responses interleave; packets wait in capture buffers and are
stale when they are read; frames get lost or damaged; routers reboot with an empty table;
and the same thread that answers ARP and forwards must also send its update in time.
Right means: routes are never better than the network, direct routes stay, no forwarding
loop, tables converge, packets do not multiply and leave the network, the update is not
starved, the longest prefix is found, checksums stay exact. A backend must keep what the interface
promises however the hardware interleaves with it; its calls must return; no descriptor may get lost.

### Processor (`codes/cod/.../sources_1/new`)

State: program counter, instruction register, operands, stage, register file, memory, and the
memory controller's own state machine on a faster clock. Operations: one step per stage
(`Decoder.v` 400-434 gives the order, 68-398 the control signals), the ALU, the controller's
read and write sequences, the reset. Hard: the CPU never waits for the controller, so two
clocks must fit each other; every stage register is overwritten at every edge; the reset
comes at any time. Right means: the stages of one instruction together do what the instruction set says,
once, and the SRAM gets a clean write strobe.

### Compiler (`codes/minidecaf`)

State: scopes with their symbols, counters of stack slots, labels and loops, the declared functions and
globals, the intermediate code. Operations: one visitor method per construct of the grammar
(`MainVisitor.java`), then one stretch of assembly per instruction of the intermediate code (`AsmGen.java`).
Hard: slots are handed back at the end of a scope and the size of the frame is known only at the end of
the function; names shadow each other; labels are numbered by counters that nested statements raise;
an expression must leave the stack as it found it. Right means: the program returns what C says it
returns, a wrong program is refused, and no two live variables share a slot.

### Message board (`codes/se`)

State: users and messages in the database; the list shown in each tab of a browser.
Operations: GET, POST (user looked up or made, message checked and saved, each a query of its
own); refresh and post in the page with answers that come later. Hard: concurrent
posts of one new user, lost answers, answers out of order. Right means: an answer tells the truth about the
board, and a tab that shows the answer to its last refresh shows what it has called a success.

### Not modelled

`codes/cod-exp1` (the course's monitor program and three short exercises), `codes/signal`
(numerical scripts), `writings` (reports), board peripherals, simulation models and vendor IP of the
processor, the emcc backend (a stub whose JavaScript side is not in the repository) and the test drivers
around the homework functions. None of these keeps state that its steps could get wrong, or
the code that does is not here.

## 2. Modules

| Module | What it models |
| --- | --- |
| `Topology` | routers, ports, links; who hears whom (capture is promiscuous, own frames are skipped) |
| `RipTable` | the table as a value: what a response changes, split horizon, cutting into packets |
| `RipNetwork` | routers running `main.cpp` with capture buffers between them: the RIP half |
| `RouteService` | abstract specification: how far each router believes each subnet to be |
| `IpForwarding` | the other half of the loop: echo, forwarding with ARP, ICMP errors, seen by hosts that probe |
| `HalLinux` | the loop of `main.cpp` on `HAL_ReceiveIPPacket`: polling, ARP, time |
| `Lookup`, `Checksum`, `RipWire` | the functions of the homework, step by step where they loop |
| `Homework` | the homework programs: one of the three above runs in each behaviour |
| `Machine` | words, registers, instructions and memory cells of the processor |
| `Isa` | abstract specification: what a program sees, one step per instruction |
| `Cpu`, `MemController` | the processor on its 10 MHz clock and the controller on its 50 MHz clock |
| `Processor` | both with the SRAM, the two clocks and the reset; shown to implement `Isa` |
| `RipNetworkProofs` | what `Learn` and `Responses` do, the inductive invariant, the refinement, and what keeps routes from circles |
| `IpForwardingProofs` | types of packets, tables and ARP entries; no probe has two copies; what a host hears about its probe is true |
| `BoardProofs` | the message board tells the truth, and a tab shows its own posts |
| `HalApi`, `HalTable` | the call in progress, its result and the frames on both sides; the ARP table as a map |
| `HalService` | abstract specification: what `router_hal.h` promises, whatever the backend |
| `HalStdio`, `HalMac`, `DmaRing`, `HalXilinx` | three backends; the ring of the DMA driver that the last one shares with the hardware |
| `HalClients` | shell, broadcaster and capture, each on each of the three backends; shown to implement `HalService` |
| `Visitor` | the compiler's pass over the tree: types, scopes, slots, labels, intermediate code |
| `AsmGen`, `Compiler` | what the generated code does on the machine; compiling and then running a program |
| `SourceMeaning` | what a program means in C, as a recursive definition: the reference for `Compiler` |
| `Board` | the view of the message board, a query at a time, and the tabs that use it |
| `HalBackendsProofs` | no descriptor is lost; every backend implements `HalService`; the broadcaster floods every packet it got |
| `CompilerProofs` | no two live variables share a slot; every jump finds its label |
| `HomeworkProofs`, `HalLinuxProofs` | the lookup finds the longest prefix, checksums add up, packets are judged and restored; the update is in time |
| `ProcessorProofs` | the processor's inductive invariant, its refinement and the write strobe |
| `MC...` | topologies (line, triangle, and four routers with one of them before a triangle), converged tables, probes, packets and programs for TLC |

**RipNetwork.** `table[r]` is `routerTable`, `rx[r][i]` what libpcap has captured on port `i`.
`Boot` is `main` up to its loop, `Timer` the 5 s branch (`sendRipResp` to all ports),
`HandleRequest` and `HandleResponse` the branches of the dispatch, each with everything they
do. `sendRipResp` walks the map in key order and cuts after `RIP_MAX_ENTRY` entries
(`Responses`); `Learn` is the loop over the entries of a response. Keys are handled one by
one, so only the subnets in `Prefix` are tracked. `Crash` is the end of the program, `Lose` a
frame lost or refused by its checksum. What leaves a port is heard by the other routers on
that link; a full buffer drops.

**IpForwarding** sees RIP from outside: `Reroute` gives a table any next hop among the
neighbours on any port, which covers every table `RipNetwork` can produce for subnets that are
not the router's own. Each of the four outcomes of the dispatch (`Local`, `Exceeded`,
`Unreachable`, `Forward`) is an action with every effect of its branch. ARP is a request that
is remembered (`asked`) and an answer that comes later (`ArpReply`); a miss drops the packet.

**HalLinux** keeps the time that has passed since `begin`, `last_time` and the entries of
`arp_timer`, instead of points in time, capped where it stops mattering. A step of the loop
takes no tick or one.

**Processor.** The control signals of `Decoder.v` are functions of the stage and of the instruction in `rI`
(`Signals`); `CpuEdge` is the clocked block of `thinpad_top.v` with the register file,
`CtlEdge` that of `MemController.v`. `Slow` and `Fast` are edges of the two clocks. They come from
one PLL, so `Ratio` fast edges fall between two slow ones (5 in the code). Where the code
assigns `X` to what the ALU gets, the result is any word. `Sram` is written when write enable
rises. A `Reset` that cuts a write short may damage the word it is writing or the word at
address 0, to which the address lines return. Words are numbers below `WordSize`, and
the fields of an instruction are a function `Decode` of its word. `archPc` is the address of the instruction
whose effect is still to come; with it `Processor` implements `Isa`, the part of RV32I that the decoder knows.

**HAL backends.** A program puts a call into `call`; its one thread then runs the backend (`StdioStart`, ...)
until there is a `result`. Frames are records of port, kind, addresses and payload; `rx` is what has arrived, `wire`
what was sent, `heard` what ARP could have been learned from. `HalService` has the same calls with one step for
what they do in the end: no polling, handles, rings or table layouts. In `HalXilinx` the hardware takes
steps of its own between any two of the thread: it fills receive buffers and empties transmit
buffers, and the timer counts modulo `Word`. `DmaRing` keeps how many descriptors are
free, allocated, at the hardware, done and taken back. The shell's signal handler may run between any two steps.

**Compiler.** The visitor's methods call each other, so the Java stack is state: `todo` holds for each open
scope the tasks that are left (visit a child, check a type, append an instruction), `types` the values
`visit()` has returned. Each method is an action up to its first child; what it does after a child is an action of its
own (`Assigned`, `Binary`, `Branches`, `Initialize`, ...). `reportError` ends the compilation. `AsmGen` says for
each instruction of the intermediate code what its assembly does to registers and memory; memory is counted in
words, and reads of words nobody wrote give `Garbage`. Programs are parse trees, as the parser is generated: `Nodes`
are the nodes of all trees, `Expressions` those that are expressions, and `Grammar` is what `MiniDecaf.g4` says of them
as far as a proof needs it (below an expression there are only expressions, and the condition of an `if` is one). TLC
evaluates `GrammarAssumption` on the trees of the run.

**Board.** A request is a record with the stage of the view it is at; each query to the database is a step (the
settings have no `ATOMIC_REQUESTS`). `Break` loses a request or an answer, `Restart` ends what the server is
doing. The list of a tab remembers which refresh it answers, so that answers out of order can be told apart; a refresh
first replaces the list by the promise, as the code does.

A definition whose name ends in `_Bug` is the definition after it with a plausible mistake; the specifications never
use them. Each property is shown to notice one of them.

## 3. What is checked

| Run | Question and answer |
| --- | --- |
| `RipLine` | R1-R2-R3 as in `Setup/netns`, `Infinity` 3 so that the far subnets are just out of reach, packets of one entry, buffers of two frames, one crash and one loss: `IInv` (the inductive invariant of the proofs), `NexthopOnInterface`, `PoisonedReverse`, `CompleteUpdate`, `Converges` hold. |
| `RipTriangle` | rival routes to one subnet, one crash and one loss: `RoutesOnlyImprove` (before the crash), `DirectRoutesKept`, `NeverTooNear`, `LoopFreeAtFirst` (before the crash, too), `Converges`, `ImplementsRouteService` hold. |
| `RipStaleInterface` | four routers, R1 behind R2 and a link between every two of R2, R3 and R4; one crash: `PairsPoisoned` is **violated** (finding 1). |
| `IpForwarding` | the line of three routers in two scenarios: converged tables with a damaged packet, empty ARP tables and data, traceroute, ping and an unreachable destination; and tables that change at will, with loops and wrong ports. `TypeOK`, `OneCopy`, `RightAnswer`, `Drains`, `AllAnswered` hold (`RightAnswer` and `AllAnswered` ask for converged tables). |
| `HalLinux` | two ports, any mix of frames: `TypeOK`, `UpdateInTime`, `ServedByPriority` hold. |
| `HalRoundRobin` | `RoundRobin` is **violated** (finding 2). |
| `Homework` | all tables over 2-bit addresses with an illegal key; all headers of four words in base 4, forwarded until their TTL ends; all packets of one entry and many of two: `TypeOK`, `LongestPrefix`, `Returns`, `ForwardExact`, `RightAccepted`, `AcceptsLegal`, `Restored` hold. |
| `Processor` | 16 words, each of them an instruction, 3 registers, 4 cells of memory, 50 programs (arithmetic, loads, stores into the program, loops, unknown opcodes), one reset at any time: `IInv`, `ImplementsIsa`, `StrobeFramed`, `InstructionEnds` hold. |
| `Backends` | three programs on three backends, two ports of which macOS finds one, two frames that arrive, rings of two descriptors, an ARP table of one entry: `RingsSound`, `Flooded`, `ImplementsHal`, `CallsReturn` hold. |
| `HalTicks` | a counter of 16 values on the Xilinx backend: `TimeoutKept` is **violated** (finding 3). |
| `Compiler` | 363 programs of two statements out of eleven kinds, in a block, in a loop and in the branches of an `if`, with declarations around them; 7 programs after `minidecaf-tests/testcases`, one with the largest frame there may be, 41 after `failcases`, 3 that the assembler refuses (the name of an epilogue taken by a function or a variable, a frame too large): `RightResult`, `FramesSound`, `JumpsLand`, `Ends` hold. |
| `Board` | two tabs and another program, three requests and the refreshes that follow, good, blank and malformed posts by one user and one whose name is too long, any connection may break, the server restarts at any time: `AnswersTrue`, `OwnPostsShown` hold. |

**Bounds.** Three routers are the deployment, and the least number with rival routes; one
crash and one loss, at any time, produce every kind of stale packet and lost knowledge. The
safety properties of RIP that hold are proved for every value of the bounds, so there the runs only guard the
proofs' premises. What a stale interface does after a reboot needs a fourth router: in the triangle a
route with a stale interface is told unpoisoned only to the owner of the subnet, who has a direct route. So the triangle says
nothing of loops after a crash, and `Converges`, true on the line and in the triangle, is false of four
routers (finding 1). All states of the four with a crash and a loss are too many for TLC; the run stops at
its counterexample. `Converges` needs the bounds: crashes and losses must end. A buffer
of one or two frames makes every overflow happen. `DefaultTtl` is a little more than the
longest way in the line. In `HalLinux` the times are small but keep their order (`Timeout`
at least `NIface`: with less, a call might not look at every port). The sum of words in `Checksum` wraps
around at base 4 as it does at 256, and both forms of zero occur. In `Processor` four
cells make programs loop, wrap around and overwrite themselves within a few steps. In `Backends` rings of
two descriptors run empty and full in every program, and a table of one entry is overwritten by the second station.
In `Compiler` the bounds are `MaxInt` 127 (the checked programs stay below it), `MemTop` 64 words of memory and
`GlobalWords` 8 for each global, `Reach` 24 words for an immediate (512 in the code; the largest frame of a program is 23 words,
the next one is refused); each kind of statement that opens a scope, takes slots or makes labels occurs before and
after each other kind, and what follows declares a variable that gets the slots handed back. In `Board` three requests
are two posts that race with a third, or with a refresh; `Limit` 2 makes posts drop off the list; `MaxSent` counts
all requests but the refresh after a post.

**Deadlock** is checked except where the system may stop: `IpForwarding` (all probes answered, all
tables settled), `Homework` (a header whose TTL is used up, a refused packet), `Backends` and `HalTicks` (a program
ends) and `Board` (nobody clicks). A compiler that got stuck would be a deadlock: `Stop` is for programs that have
ended or been refused only.

**Fairness.** `RipNetwork`: a router that is down is started again, the timer keeps expiring,
and a frame that waits on a port is taken in the end. The last is weak fairness per port. It is
justified by the load RIP makes: a few packets per 5 s against a loop that polls in
microseconds, so that the lower ports are silent most of the time, and `ServedByPriority`
shows that this suffices. It would not be justified against a flooded port (finding 2). `IpForwarding` adds: stations answer ARP, and hosts
repeat a probe that got no answer. `HalLinux`: the thread never stops and the clock does not
stand still while it polls. `Homework`: a loop that has begun goes on. `Processor`: the clocks run.
`HalClients`: the thread goes on inside a call, the transmitter sends what it owns, the timer counts; nothing is said of
frames that arrive or of what a program's user does. `Compiler`: the compiler and the program run on. `Board` has no
fairness: nothing in it promises that a request is answered.

## 4. What is proved

For every topology, every `Infinity`, batch size, buffer size and number of crashes and
losses, from the assumptions `TopologyAssumption` (no router has two ports on one link),
`TableAssumption` and `NetAssumption` (`Distance` is the hop count, stated locally by its
three defining inequalities):

- `Safety`: `Spec => []IInv`; from it `TypeCorrect`, `DirectRoutesStay`, `NoShortcut`.
- `UpdateComplete`: `Spec => []CompleteUpdate`, whatever the table and the batch size.
- `Implementation`: `Spec => ImplementsRouteService`.
- `NearerSafety`: `Spec => []NearerInv`; from it `RoutesImprove`: `Spec => RoutesOnlyImprove`, and
  `NoLoopBeforeCrash`: `Spec => []LoopFreeAtFirst`, stale interfaces and lost frames included.
- Where routers and links form no circle (`NoCircle`, which the deployment of the course satisfies:
  `WhichCircle` in `MCRipNetwork`), crashes and losses included: `TreeNexthops`: `Spec => []NexthopOnInterface`,
  `TreePoison`: `Spec => []PoisonedReverse` and `TreeLoopFree`: `Spec => []LoopFree`.

For every topology, set of hosts and probes, tables to start with and number of changes and losses that
`HostAssumption` allows: `TypeCorrect`: `Spec => []TypeOK` (`IpForwarding`), and where each link joins two
stations at most (`TwoStations`, which holds of the networks checked: `LinksJoinTwo`) `NeverMultiplied`:
`Spec => []OneCopy` and `RightAnswers`: `Spec => []RightAnswer`. With three stations on a link both are false, as two
routers take the frame. One premise of `HostAssumption` is there for the second proof: no next hop in a table to start with
is the router's own address, which no response it takes comes from, as the HAL skips a port's own frames.

For any number of tabs, programs, names and requests, and any `Limit`: `BoardTells`: `Spec => []AnswersTrue` and
`PostsShown`: `Spec => []OwnPostsShown` (`Board`).

For every address width and table `LookupTypes`: `Spec => []TypeOK` and `LongestPrefixFound`:
`Spec => []LongestPrefix`; for every number of words in a header, every size of a byte and every place of TTL and checksum
`IncrementExact`: `Spec => []ForwardExact` and `RightNeverRefused`: `Spec => []RightAccepted`; for every set of packets off
the wire and masks of every width `LegalAccepted`: `Spec => []AcceptsLegal` and `PacketsRestored`: `Spec => Restored`
(`Homework`; `ChecksumAssumption`, `WireAssumption`); for every number of ports, period and timeout that `HalAssumption` allows `TypeCorrect`:
`Spec => []TypeOK`, `LateNoMoreThanWaited`: `Spec => []LateByWaiting` and `UpdateNeverStarved`:
`Spec => []UpdateInTime` (`HalLinux`).

For every number of words, cells and registers, every encoding, every program, any number of
resets and every clock ratio from 3 on (`MachineAssumption`, `ProcessorAssumption`):
`StagesFit`: `Spec => []IInv`, `Implementation`: `Spec => ImplementsIsa` and `StrobeHolds`:
`Spec => StrobeFramed` (`Processor`). For every ring size, number of ports, set of frames and program,
`NoDescriptorLost`: `Spec => []RingsSound` and, for every table size and any payloads, addresses and calls of the
programs, `BackendsImplementHal`: `Spec => ImplementsHal` (`HalClients`; from `NoIpAssumption`, too: nobody asks for the
MAC of 0.0.0.0) and `FloodsAll`: `Spec => []Flooded` (`ApiAssumption` says that no station has the address of a group for
its own: by it the packets of the broadcaster are told from those that join the RIP group). For every sequence of
programs, right or wrong, of every size, `SlotsNeverShared`: `Spec => []FramesSound` (`Compiler`) and, from `GrammarAssumption`, `EveryJumpLands`:
`Spec => []JumpsLand` and `OnlyRefusedFor`: what the visitor accepts the assembler and the linker refuse only for a call to a
function that is not defined, for a name that is the label of an epilogue, for a frame beyond a 12-bit immediate, or
for that many arguments or parameters; never for a label of the visitor (`EveryJumpLands`) or for the place of a local variable
in a frame that fits (`LocalsInReach`). Of the bitwise operations the proof only uses that they give words.

*The invariants.* `NeverTooNear` is not inductive for tables alone: a table takes its metrics from
packets, and a packet may be older than anything that is now in a table. So it also bounds the claims of
packets in flight by the distance of their **sender**, and `FromNeighbour` says that the
sender of a packet in a buffer is on that link; then the metric plus one is at least the
distance of the receiver by the triangle inequality in `DistanceAssumption`. `DirectRoutesKept`
needs `TypeOK`, because only metrics of at least 1 keep a received metric (at least 2) from
being less than 1, and `Direct` is no address. `DownEmpty` carries `DirectRoutesKept` over a reboot.
`UpdateInTime` alone does not say why the thread comes back: `LateByWaiting` ties the lateness to
the ticks waited in the current call, which the loop condition bounds. `LongestPrefix` is about the
end of a search; `NothingLonger` says what every round of it has excluded, and the step rests on
the fact that masking twice is masking once. `IInv` of `Processor` says what each stage register
holds in each stage, and ties the state of the controller to the ticks since the last slow edge:
without that tie nothing says that a word is there when `rI` or `rD` takes it over.

`RingsSound` compares the counters of the Xilinx backend with the rings only between calls; inside a call the
thread may hold a descriptor, and its invariant `XInv` says for each place in the code which. That the backends
implement `HalService` is proved action by action under `HalInv`: what an ARP table says was told (or is still zero, on
the board), and on standard input and on the board every waiting frame is another station's, since those backends, unlike
macOS, do not compare the source. On the board the service sees what the rings hold (`View`, `Sent`): `DoneFrames` and
`OwnedFrames` are the frames between the counters of a ring, and the lemmas about them say that descriptors less than a
round apart are different, that what the thread puts back is not among those that wait, that a frame handed to the
transmitter comes last and the one it sends was first, whether done descriptors were taken back in between or not.
The refinement carries the next proof: `FloodInv`, the invariant of the broadcaster, looks at no backend. It says where
the program is (`Stage`), that what it has got comes from stations (`Got`), that the router's own packets bear the MAC of
their port, so that none it hears again is handed over (`Origin`), and for each port how many packets are out (`Due`,
with one less from the moment a packet is due there until its send is through). A step of a backend keeps it because it is one of
`HalService` (`StepsSeen`), of which only `Send` adds a packet.
`FramesSound` speaks of pairs of
symbols of all scopes. It is inductive with what the visitor's stack of scopes means: scope *j* owns the slots from
`marks[j]` (the counter when it began) to where the next inner scope begins (`ScopeBounds`, `SymbolBounds`), so symbols of different scopes are
apart, and handing back one slot per symbol at the end never goes below `marks[j]`, because a
symbol has at least one word. `FrameCovers` needs that every address taken belongs to a function that is finished, whose size stands,
or is below `frameCntr`, which never sinks (`Functions`, `Counters`).

*Why jumps land.* `JumpsLand` is about finished code, and a jump comes before its label as often as after it; so the
invariant `LInv` is about the tasks that are left as well. A jump in the code, or a task that will append one, has its label
in the code of its function or among the tasks (`JumpsSound`, `Lands`), and a label has a number that was given out and is
neither in the code nor twice among the tasks (`LabelsSound`, `TaskSound`, `InOrder`). A loop and a conditional expression
take a new number when they set out their tasks, so nothing has their labels yet. An `if` is harder: the code raises `labelCntr`
before the condition and names the labels after it (`MainVisitor.java:241`), by the counter as it is then. It may have moved on,
and the last conditional expression of the condition has the same number; but that has other names
(`IfLabels`, `TernaryLabels`), and no other `if` can have taken it, as in a condition there are only expressions
(`InCondition`): here the proof needs the grammar. `break` and `continue` take the number on top of `loopStack`:
`LoopsSound` says that it holds the loops whose statement the visitor is in, inner ones first, and each of these still has its
labels to come. At the start of a function nothing is left of the one before (`AtTop`), so a jump never waits for a label of
another function. `JumpsLand` is about `br`, `beqz` and `bnez`; the jump of `ret` goes to the epilogue of its own function,
whose label is its name's, so that only another name can clash with it: `NamesApart` in `Links`.

*Why there are no loops.* `LoopFree` is not inductive, and with the stale interface (finding 1) the split horizon does
not help. `NearerInv` says why there is no loop before a crash: a router holds at least what every packet it sent
claims (`Held`; later packets of a buffer claim no more than earlier ones, `Improving`), so the next hop of a route is always strictly nearer
than the router itself (`Chained`), and a response keeps it so (`Nearing`). A crash breaks this: the rebooted router
knows nothing while its neighbours still point at it, and where links form a circle a loop may come about (finding 1). Without circles there is another argument that needs no history:
`TreeInv` fixes for each router the one interface that leads to a subnet; routes go out of it, and no packet
ever claims a subnet towards the side it lies on.

`OneCopy` counts; its proof does not. `AllOne` says of any two frames or packets of a probe that they are the same, so
that a step has to show only that what is sent replaces what was taken off, and that one station at most hears it.
`BoardInv` says how far the view can have come with each request given the table of users (`AllSound`), that messages
and successful posts match one to one (`Posted201`), and that the last refresh of a tab was sent after the
post it must show (`Listed`), whoever posts in between.
`WireInv` says what has been read of a packet so far, entry by entry.

*Where the code loops over data* the model has a recursive function, and such a function is a `CHOOSE`: before anything is known of
it, it must be shown to exist. `Least` (a set of naturals has a least member; from the theorem that `<` is
well-founded) stands for induction: of the arguments for which a claim fails, take the least. So `Folded` is the
remainder modulo `m - 1` (with `m - 1` for a sum that is not 0, the other form of zero), hence words and bytes of
a header add up to the same; `Words` of a header with one word changed is the sum changed by as much; `Shifted` ends in
zero just for ones followed by zeros. `Path` in `IpForwardingProofs` is `Hops` of the tables to start with; router *n*
of it sends the probe on to router *n* + 1 alone (`PathGoesOn`), and after its end nobody sees the probe (`PathEnds`). `Steady`
says of every packet at a router that is a probe that its TTL counts its place on the path, and of every answer that it is true and
goes home or, being about an answer, to a router.

*The proofs* follow the code: `RipNetworkProofs` begins with what `Learn` and `Responses` do to types, bounds and
batches; then comes one step per action and under it one per conjunct that the
action touches; then each action is mapped to a step of `RouteService` or a stutter.
`ProcessorProofs` first states what the signals and the ALU give in each stage, then what an edge does, and
uses only that.

*Model-checked only:* everything under fairness (`Converges`, `AllAnswered`, `Drains`,
`ServedByPriority`, `Returns`, `InstructionEnds`, `CallsReturn`, `Ends`), which the prover does not reach;
and `RightResult`, as the meaning of a program is a recursive operator over its
tree, which the prover does not take.

## 5. Findings

1. **A changed route keeps its old interface.** The comment at `Homework/router/main.cpp:294`
   says "update metric, if_index, nexthop"; lines 334-335 assign `nexthop` and `metric` only. When a
   better way arrives on another port, packets go out of the old port to a next hop that is
   not there: `NexthopOnInterface` is false in the triangle already. The "split horizon with poisoned reverse" that line
   264 asks for looks at `if_index` (line 567), so such a route is announced back to its own next hop, and `PoisonedReverse` is false, too.
   The run shows what comes of it when a router reboots. R4 has learned the subnet of R1 through R3, and tells R2, which has rebooted;
   then it learns it better through R2 but keeps the interface to R3. R2 takes what R4 told it. Now each sends the packets for
   the subnet to the other, and R4 goes on telling R2 that it can be reached. So `LoopFree` is false in this network
   after a crash; as longer circles may come about in RIP with rightly poisoned routes, too, the run asks about two neighbours.
   It may also last: put `RightAtRest` in the place of `PairsPoisoned` in `RipStaleInterface.cfg`. R2, for a while on a way
   through R4, comes back to its direct way to R1 but keeps the interface to R4, and poisons the route on that link for ever; R4
   stays on its longer way through R3, and no update changes a table any more.
2. **Polling is not round robin.** `router_hal.cpp:232` says "Round robin", but every call starts at
   port 0 (line 233) and returns at the first IPv4 frame: a busy port 0 starves the others.
3. **Ticks of the Xilinx backend wrap around.** `HAL/src/xilinx/router_hal.c:189` multiplies the 32-bit
   counter before it divides, so the time starts again from 0 every 42 ms at 100 MHz and a receive
   with a longer timeout never ends, though `router_hal.h:92` calls it a timeout in milliseconds.

Noted while modelling, with no run of their own: `validateIPChecksum` adds bytes, not words, and so
accepts some headers whose checksum is wrong (`checksum/README.md:24` asks for an equivalent
method); the response handler stores keys without masking them (`router.h:9` promises legal
prefixes), which `LongestPrefix` shows to be harmless to the lookup; routes never time out;
an ICMP message of odd length gets a checksum without its last byte (`main.cpp:490`); on the Xilinx board
`HAL_ArpGetMacAddress` finds 0.0.0.0 on port 0 in any entry that is still empty (`xilinx/router_hal.c:181`), with a MAC of zeros.
In the compiler, `int a = 1; int a;` at the top level forgets the initialiser (`MainVisitor.java:86` stores the type of
the second declaration, which has none), where GCC keeps it; a global pointer with an initialiser fails in a cast (line 70);
a function or a global called `f_epilogue` collides with the label of the epilogue of `f`, and a frame of more than 511 words (a large local
array will do) or a call with more than 511 arguments does not fit the 12-bit immediates of `AsmGen.java:141-197`: the compiler accepts
both and the assembler refuses them (`Links`); `&&` and `||` evaluate both sides
(`writings/2-编译原理/step4.md:20` says that short circuit is not required). Of these programs `RightResult` only asks about names and frames that the assembler refuses. In the message board a
body that is not JSON is answered 500, not 400 as the comment at `views.py:54` wants, because `json.loads` stands
outside the `try`; a post that creates its user may be refused when another does so at the same time; a post refused
for its body leaves its new user behind; a list that is late may replace a newer one until the next refresh.

## 6. What is left out

Byte layout of packets beyond `RipWire`; UDP and ICMP payloads; destination MAC
addresses, since no receiver compares them (only hosts do, and `IpForwarding` has that);
packets that are neither RIP nor probes; in the Linux backend the start of the HAL and its error returns
(the macOS backend, whose code is the same there, has both). In the processor: the bits of the encoding, accesses of less than a word (the
decoder takes all as words and all branches as BEQ), and timing within a clock period. The static lambda in `sendRipResp` keeps references to the frame of its first call;
the model takes the outcome of the build, where later calls have the same frame.
In the compiler: bytes (addresses count words, so the factor 4 is gone), overflow of the 32-bit arithmetic, arrays so
large that their size overflows (`Fits`), and programs whose meaning C leaves open; of the
names that mean something to the assembler or the linker beside the program's own (registers, the C library, the start-up code), and of
functions so long that a jump or branch does not reach, `Links` says nothing. That the call of a function that is declared only finds the
epilogue of another by its name is modelled (`doCall`), but no program of the run does it. In the message board: the
arguments of GET and other methods, timestamps, the dialog's own state, the texts of alerts; SQLite giving up on a lock after five seconds.

## 7. Plan

The order in which the project was built: RIP with its service and proofs; the forwarding plane, the Linux HAL and
the homework functions; the processor with its memory controller, `Isa` and the refinement; the other HAL backends with the
example programs and `HalService`; the compiler with its machine and the proof of the slots; the message board.
The proofs came in the same order, and then what keeps routes from circles, the single copy of a packet and the message
board; that the backends implement `HalService`, and from it that the broadcaster floods; last, what rests on recursion: checksums,
masks and paths, and the labels of the compiler, whose invariant TLC checked on the programs of the run first. Worth doing next: an abstract specification of the list a tab shows,
and what the tables come to rest at after crashes in networks with circles.
