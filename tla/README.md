# A TLA+ verification of capDL

capDL describes the capabilities and objects of an seL4 system. This repository
holds the tools that make such a description and the program that loads it:
`capdl-loader-app`, the first user task of the system, which receives all the
memory and all the capabilities of the machine, creates the objects of the
description, distributes the capabilities and starts the threads. If the loader
is wrong, nothing that runs later can be right, and most of its errors show only
on one board, with one memory layout or with one order of objects.

The modules here model the loader, the parts of the capDL-tool that decide what the
loader gets (model construction, checks, order of objects) or analyse it, and the Python
tools that allocate memory and build address spaces. They are checked with TLC on small
instances, alone and composed with the part they feed. Both ways of allocating memory, the
initialisation of the system, the best-fit allocator, the prediction of untypeds, the access
analysis, the arguments of threads and the contents of frames are proved with TLAPS, for all
models, machines and boot informations.

## 1. The system

| Part | State it keeps | Operations | What makes it correct |
|---|---|---|---|
| loader: object creation (`main.c` 367-855) | `capdl_to_sel4_orig`, `untyped_cptrs`, `free_slot_start`, the loop indices; the kernel's slots and watermarks | `parse_bootinfo`, `sort_untypeds`, `create_object`, `find_device_object`, `create_objects` | every object exists once, in memory of its own, at its address; slots are not lost; creation ends; memory is used as far as possible |
| loader: initialisation (`main.c` 857-2095) | the tables of duplicates, interrupt caps and scheduling control caps, `mapped_frame_cap`, the free slot; the kernel's CNodes, address spaces, TCBs, interrupts | the phases of `init_system`: interrupt caps, duplicates, interrupts, ASIDs, frames, address spaces, scheduling contexts, TCBs, copying and moving of caps, start | when the first thread runs the system is the one of the model, and the loader touches nothing of it afterwards |
| loader: thread arguments (`configure_tcb`) | stack pointer, mapped frame | padding, mapping, writing arguments, registers | the thread finds its arguments; the stack is aligned |
| loader: frame contents (`init_frame`) | table of boot information blocks, frame bytes | caching headers, two kinds of fill | the frame has the bytes of its fills; nothing else is written |
| loader: static creation (`main.c` 451-478, 707-767) | as dynamic creation | untyped matching, creation along recorded derivations | the kernel reproduces the placement that the tool computed |
| capDL-tool: `PrintC.hs`, `PrintUtils.hs` | none | `sortObjects`, `getASIDPoolDerivations`, `printC` | the order the loader relies on |
| capDL-tool: `MakeModel.hs` | the names of slots, the graph of copies, the CDT, the caps in slots | the passes over declarations | names, copies and slots resolve as declared, in any order of declarations |
| capDL-tool: `State.hs` | none | `checkModel` | what passes the checks is loaded |
| capDL-tool: `STCC.hs`, `Matrix.hs` | two matrices, the CSpaces | leaks, flows, closure, saturation | closures are complete; saturation gives every TCB exactly what leaks to it |
| python-capdl: `Allocator.py` | queues of objects, untypeds with watermarks, ASID numbers | `BestFitAllocator`, `ASIDTableAllocator`, object and cap allocators | complete, aligned placement that the kernel will reproduce; no exception without a reason |
| python-capdl: `ELF.py`, `PageCollection.py`, `util.py` | regions, pages and tables | segments to pages to tables | every byte mapped once, with its contents and rights |
| cdl_utils | two queues of regions | `untyped_gen`, `capdl_linker` | the untypeds are the free memory, in pieces the allocator accepts |
| cantrip-os-rootserver | tables as in the loader | a Rust main program | its loader is in another repository |

Interaction: `untyped_gen` predicts the machine's untypeds; the Python module makes
specifications from ELF files and (for static allocation) placements in those untypeds;
capDL-tool parses them, `makeModel` and `checkModel` resolve and check them, and `printC`
turns them into a C array of objects, whose order is chosen for the loader; the loader reads that array and the kernel's
boot information. Loader and kernel interact by system calls; every loop of the loader
is a sequence of them, and nothing else runs before `start_threads`.

What is hard is therefore not concurrency but long sequences of calls on shared
kernel state: watermarks that the kernel forgets, slots borrowed and given back,
tables that name capabilities which have since been replaced or moved, results that
are ignored, phases whose order matters, arithmetic at the edges of pages and
frames. `PROJECT.json` lists these hazards line by line with the properties that
would notice them.

## 2. The modules

| Module | Models |
|---|---|
| `Placement` | what creation promises: objects get memory one at a time, at their address if they have one, never shared except where the model says so |
| `Kernel`, `CreateObject` | seL4's untypeds and what `create_object` asks of them, shared by both ways of creating objects |
| `CreateObjects` | dynamic creation, one action per outcome of a loop iteration |
| `StaticObjects` | static creation: matching of untypeds, children along the derivations, ASID pools |
| `PrintC` | `sortObjects`, the ASID pool derivations and the addresses of covered objects, as operators |
| `InitSystem` | `init_system` from `mark_vspace_roots` to `start_threads`, one action per iteration of a phase |
| `StackArgs` | `configure_tcb` |
| `LoadFrames` | boot information headers and frame fills, byte by byte |
| `Powers`, `Ordered` | powers of two; a set of numbers in ascending order |
| `BestFit` | `BestFitAllocator.add_untyped` and `allocate`, with `AllocQueue` and `Untyped.add_child` |
| `ASIDTable` | `ASIDTableAllocator.allocate` |
| `UntypedGen` | `untyped_gen.py`: `init_freemem` and the cutting of regions |
| `StaticSystem` | `ASIDTable`, `BestFit`, `PrintC` and `StaticObjects` one after the other |
| `ELFPages` | `ELF.get_pages` with `AddressSpaceAllocator`'s frames |
| `AddressSpace` | `ELFPages`, then `PageCollection.get_spec`, then the loader's mapping, fills and lookup |
| `MakeModel` | the passes of `makeModel` over capability declarations |
| `ModelChecks` | `checkModel`, then `InitSystem` on what it accepts or refuses |
| `STCC` | `leakMatrix` |
| `MC...` | the instances TLC checks; `MCShapes` has the models of `MCInitSystem`, for one build |
| `ProofLemmas` | lemmas about numbers, sequences and recursive functions that several proofs use |
| `CreateObjectsProofs` | lemmas about the kernel's retype, theorems about `CreateObjects` |
| `StaticSystemProofs` | theorems about `StaticObjects` and, with `BestFitProofs`, about `StaticSystem` |
| `BestFitProofs` | what every step of the best-fit allocator keeps |
| `ToolProofs` | theorems about `STCC` and `UntypedGen`, the tools that run before the loader |
| `InitSystemProofs`, `StackArgsProofs`, `LoadFramesProofs` | theorems about these modules |

### CreateObjects

Variables have the names of the C variables. `caps`, `free` and `asid_table` are the
kernel's: the cap in every slot of the initial CNode, the watermark (freeIndex) of an
untyped cap, the ASID table. The kernel is modelled from how the loader uses it: a
retype puts the object at the next aligned address after the watermark, and **an untyped
without children starts again at its first byte** (`FreeIndex`), the fact
`find_device_object` is built around. `m` holds the model and the boot information; it
is chosen in `Init` and never changes.

An iteration of `create_objects` is one step: `SkipObject`, `IssueObject` or
`IssueFails` (I/O ports, stream ids, context banks), `RetypeUntyped`, `NextUntyped` or
`RetypeFails` (normal memory), `CopyPrevious` or `SearchUntyped` (device memory). The
search takes one step for every round of its `while (1)`: `ProbeFound`, `ProbeMissed`,
`ProbeFails`; a round includes the temporary frame in slot `free_slot + 2` that tells
the address of an untyped, and the move to, or the delete from, the hold slot. Then
`LeaveLoop`, one `MakePool` for every ASID pool, `Finish`. Every `ZF_LOGF` and `assert`
is `Abort`. Sizes count bytes, not bits; object types are kept apart only where creation does.
The 16 slots `parse_bootinfo` skips for the serial port are not part of the model's slots.

`Models` is any set of models that the assumption `ModelsAssumption` allows: what the tool
emits (memory objects have a size, only frames and untypeds have an address, ASID table
entries are pools and every pool is in the table) and what the kernel boots with (untypeds do not overlap).
The loader does **not** need the objects to be sorted for the proved properties; sorting
matters for `NoFragmentation` and for finding device objects at all.

### InitSystem

`pc` is the phase, `i` the position in its loop, `Work(pc)` the list of iterations, in the
order the C loops take. `NextPhase` goes to the next phase; every other action is the
whole body of an iteration with its system calls and its `next_free_slot`, which may
find that the last slot has just been used (`TakeSlot`). A model carries the build of the loader
(`MCS`, `Recursive`, `RiscV`, `Writeable`). `roots` are the tables that
`mark_vspace_roots` renames on RISC-V, `mapped` is `mapped_frame_cap`, `oob` records
writes outside `capdl_to_sched_ctrl`. The kernel's part decides when a cap can be
derived, where a table or a page can be mapped, and which rights a copy keeps.
Address spaces have two levels; `init_level_0` and `init_level_1` repeat for further
levels what `init_level_2` does. `fills` and `valid` abstract `LoadFrames` and `StackArgs`:
they say whether the fill and the stack are accepted. VCPUs, I/O spaces, domains,
priorities, affinity and cache maintenance have no effect on what the properties say
and are left out.

`tcb` keeps what `init_tcb` gives a thread: the CSpace with its guard, the VSpace, the IPC buffer,
the scheduling context, and two fault endpoints. The fault endpoint is minted with the model's
badge (1053-1062); the temporal one is bound from the original cap and has none (1045-1051, 1112).
`init_irq` stops on a table of more than one slot, and the kernel refuses to bind anything but a
notification (`Bindable`).

`WellFormed` collects what a model must satisfy to be loadable, from the tool's checks
and the kernel's rules; `SlotDemand` counts the slots the phases take. `SpecsAssumption` is weaker:
what `checkObjs` and the types of the tool leave of any model (a cap names an object of its type, a
thread's slots hold caps of their kind, RISC-V has no page directories). A cap in a CNode has
the rights of the model, except the cap of a mapped frame: that is moved from where the frame was mapped
from, and has all rights (1449, 1827). `CSpaceConforms` says both. What `init_irq` and `init_tcb` bind
has all rights, because they take the original cap or mint from it with all of them.

### StackArgs and LoadFrames

`StackArgs` counts words. A frame larger than a page has the slot of its first page only,
as in the tool's output, so that `get_frame_cap` finds it there or not at all; a large
frame in a directory slot cannot be mapped at the copy window, which ends in the same
abort. The configuration where arguments never go on the stack
(`CONFIG_CAPDL_LOADER_CC_REGISTERS`) refuses every such thread and is not modelled.
`LoadFrames` keeps the bytes of one frame; `Room` is the subtraction and
comparison of `init_frame` with the width of `size_t`. A fill of an unknown kind, or of a
block of boot information that no fill may name (`FillIds`), is refused. The files that fills
name are taken to be in the archive, as the build puts them there. Stack pointers wrap
around at `AddrWords`, so a stack may end at the last address.

### StaticObjects, BestFit, ASIDTable, UntypedGen and StaticSystem

With static allocation the loader looks at no address. `StaticObjects` finds each untyped of
the model in the boot information, after the last one it has found (`bi_start`), and
retypes the children in their order (every derivation of the model is from an untyped, which 461 asserts);
an ASID pool is made in a second pass from the untyped that stands for it.
An object is where the tool wants it only because watermark and cover advance together, and
that depends on the allocator. `BestFit` follows `allocate`: an untyped is filled up to the
next object with an address (`_use_untyped`, which cuts the gap into powers of two, and
`_fill_from_objects`, whose recursion is the stack `calls`), with queued objects or
placeholders; then objects without an address fill normal memory. An assertion or an
exception ends the allocator, with "memory" for want of memory and "refused" for the rest. Sizes count units, and an address of 0 is none, as the code
tests it. `ASIDTable` is the two loops over pools. `StaticSystem` runs both allocators,
collects the covers in the order of the untypeds' names, and starts the loader on several
boot informations. A model with covers may also be written by hand: then there is nothing to
allocate, and the static loader starts at once. `max_objects`, part of a model, is
`CONFIG_CAPDL_LOADER_MAX_OBJECTS`. `UntypedGen` has one action per branch of the loop of `init_freemem`,
including the branch that looks at a list that has just become empty, and one per piece that
`create_untypeds_for_region` cuts. `Trimmed` is the SortedList of `main`, whatever order the
description has. `GoodMachine`, the assumption about descriptions, is in section 4.

### ELFPages and AddressSpace

A segment is a list of regions; each frame that was given for a symbol cuts the region a binary
search finds, and every region becomes pages, larger ones if allowed. `AddressSpace` puts
each page into tables, the missing ones made on the way, and then maps what the tables say
as `init_level_0` to `init_level_3` do, with the fills of each frame. `Lookup` is
`get_frame_cap`'s walk. Addresses are those of an address space of 32 bytes; the
levels belong to the image, with the sizes of the indices for the loader and the coverage
for Python, which `LevelsAssumption` relates.

### MakeModel, ModelChecks and STCC

`MakeModel` takes one step per mapping and pass. Slots are numbered by three passes independently,
which is where they may disagree. A copy is the cap declared at the end of the names, with the copy's own
mask; the masks of the copies between are not looked at (875). Containers that are arrays, copies of
arrays of caps and the error for a unique name given to an array are not modelled. `ModelChecks` adds no state to `InitSystem`: `CheckModel`
is a predicate on the model in `Init`, and `Unchecked` lists what the loader needs and no
check demands; it is part of the result. `STCC` takes one step per row of `warshall` and per
TCB in saturation, because both read what they change.

## 3. What TLC checks

Every run is listed in `PROJECT.json`; every property has a mutant, a plausible wrong
version of a definition under which TLC finds it violated.

| Run | Shows | Instance |
|---|---|---|
| `create_objects` | `TypeOK`, `NoFragmentation`, `EveryObjectCreated`, `NoOverlap`, `DeviceAtPaddr`, `BorrowedSlotsReturned`, `WatermarkNeverReset`, `CreationTerminates`, `ImplementsPlacement` | all models of 4 objects from 10 kinds in the tool's order, one of them a frame of a size the kernel has no type for, 4 memory layouts with 3, 4 or 6 free slots; all models of 4 objects from 11 kinds with addresses in, at the edge of and outside a device untyped of 8 bytes and in normal memory |
| `init_system` | `CSpaceConforms`, `VSpaceConforms`, `IrqsConform`, `ThreadsConform`, `QuietAfterStart`, `SystemStarts`, `CheckedModelsStart` | two CNodes, two threads, two address spaces, a table, two frames, a notification, a scheduling context, an interrupt; threads with guards and one, both or no fault endpoints, also one that is no endpoint; once with MCS and the two-pass `init_vspace`, once with page tables as directories, the recursive `init_vspace`, writeable instruction pages and no MCS; 94 systems that the tool's checks accept or refuse |
| `stack_args` | `ArgsOnStack`, `StackStaysAligned` | every stack pointer of 105 in a space of 128 words, 0 to 10 arguments, a page, a frame of 4 pages, gaps, 2 adjacent pages, the last page |
| `frame_contents` | `FrameContents`, `FillsInFrame` | all pairs of fills of a frame of 4 bytes, 2 boot informations |
| `static_system` | the allocator: `CoversAcceptable`, `AllocatedOnce`, `OutOfMemoryJustified`, `AllocationEnds`; the loader: `AtToolAddress`, `ConsistentModelsCreated`, `ImplementsPlacement`; both: `KernelFollowsAllocator`, `BuiltSpecLoads` | 3 objects of 6 kinds, or pools with all claims, on 3 machines, boot informations in order, reversed and different; up to 4 objects without addresses over 5 lists of untypeds, up to 3 of 9 kinds, most with an address, over 4 lists of mixed untypeds; 216 lists of 3 untypeds that may overlap or be misaligned; models written by hand with 2 untypeds of up to 3 and 1 children, derivations in both orders, 4 boot informations, a slot too few or one to spare |
| `untyped_gen` | `FreeIsUnreserved`, `UntypedsAccepted` | all regions of a memory of 8 pages, or two of them; up to two reserved regions, empty ones included; a device |
| `address_space` | `ImageLoaded`, `GivenFramesMapped`, `LookupAgrees` | 7284 images, on two and on three levels of tables: two segments in the order of their addresses that share pages, frames for up to three symbols, large frames or not |
| `make_model` | `SlotsAsDeclared`, `CopiesResolved`, `TreeOfNumbered` | 38400 specs: two declarations with up to four mappings, arrays, copies, cycles, parents |
| `access_analysis` | `CSpacesComplete`, `CSpacesSaturated`, `FlowsStable` | 4 TCBs, 6 contents of each root CNode, a CNode that leads back or contains itself, two address spaces |

Refinement. `CreateObjects` and `StaticObjects` both implement `Placement`
(`ImplementsPlacement`): `placed` maps the recorded caps to the places the objects have,
and a step of the loader places at most one object, where the abstract specification
allows it.

Bounds. Four objects are enough for the search to miss twice, hold, find, and be followed
by a shared frame, and for the free slots to end inside a search; three untypeds of
different sizes are enough for every order of the counting sort with a tie. `N`, `F`, `P`,
`MaxObjects`, `MaxStreamIds`, the number of slots and `Width` are the named bounds; no
counter of the models grows without one. `FrameSizes` are the sizes `kobject_get_type`
knows; a frame of another size stops the loader in `retype_untyped`. A model has at most
`MaxObjects` objects (`ModelsAssumption`): the constant is generated with the model, and
`add_sel4_cap` relies on it. In `InitSystem` a model is one state
of `Init`, so that its behaviours are nearly deterministic; the instances vary one
aspect at a time around a base system and all pairs of caps in a CNode.

Fairness. `FairSpec` is weak fairness of the loader's own step. The loader is the only
thread of the system, at the highest priority, and no call of it blocks; until
`start_threads` nothing else can run. `CreationTerminates`, `SystemStarts` and
`CheckedModelsStart` rest on it. The Python tools are sequential programs that run until
they return or raise; weak fairness of their step says no more than that, and
`AllocationEnds` rests on it, `BuiltSpecLoads` and
`ConsistentModelsCreated` on that of the static loader. All these are
checked by TLC only.

Bounds of the tools. In `BestFit` untypeds of 16
units hold three objects with gaps of several pieces before, between and after them. Three levels of
tables with a frame size each are enough for a table between two tables; the fourth level of
x86-64 and AArch64 repeats the step. The page of two bytes makes every boundary of
segments, pages and large frames meet in a 32 byte space. Chains of three copies and of three
endpoints are the shortest on which a pass in the wrong order fails.

### Where the code differs from what is said of it

Three runs are expected to find a violation. Each states what a comment, an assertion or a
docstring of the repository says:

* `sched_ctrl_bounds`: the loop of `create_sched_ctrl_caps` (968) is inclusive and writes past
  the table whose bound line 131 asserts.
* `fit_recorded`: when the objects with addresses are done, `allocate` adds the untyped it is at to
  the spec only if memory remains in it (`Allocator.py` 658). One that is filled exactly is used
  and not added, although "the used untypeds" are to be added. Line 651 leaves an untyped with
  children in the same way when the next address lies in a later untyped.
* `children_slots`: the CDT pass numbers only mappings with a parent (`MakeModel.hs` 971), so a
  child may be recorded in another slot than its own.

Other differences met while modelling have no run of their own. The modules follow the code,
and the properties exclude the case by a named condition:

| Code | What it does | The property and its condition |
|---|---|---|
| `main.c` 1449, 1827 | a cap tied to a mapping is handed over with all rights | `CSpaceConforms` says so: all rights for these caps, the model's for the others |
| `main.c` 1051, 1112 | the temporal fault endpoint of a thread is bound without its badge | `ThreadsConform` says so (`Unbadged`) |
| `main.c` 2044 | on RISC-V a thread without a VSpace makes `mark_vspace_roots` dereference NULL, which `init_tcb` (1078-1084) is meant to tolerate | `WellFormed` in `SystemStarts`; the model ends in "fault" |
| `main.c` 1179 | only dword alignment of the stack pointer is checked, while 1214 promises `STACK_ALIGNMENT_BYTES` | `StackStaysAligned` is about stack pointers that are aligned before |
| `main.c` 1982 | a signed limit is compared with an unsigned length, so a fill that begins outside the frame is accepted | `OffsetsInFrame` in `FillsInFrame` |
| `main.c` 1952 | the empty header goes to the start of the frame, not to the offset of the fill | `HeaderAtStart` in `FrameContents` |
| `main.c` 716 | static creation reaches objects through untypeds only; one that takes no memory is never created | `AtToolAddress` is about covered objects |
| `Allocator.py` 381 | `ASIDTableAllocator` refuses the numbers that are free, so every claim | the build ends in `Asids!Raise` |
| `Allocator.py` 590 | a gap before an address is filled in aligned pieces, so memory that would suffice is not used | `NoAddresses` in `OutOfMemoryJustified` |
| `untyped_gen.py` 77 | a reserved region is dropped after the first available region it trims | `Spanning` in `FreeIsUnreserved` |
| `ELF.py` 115 | a frame that ends where a segment begins is taken to overlap it | the image ends in "error", about which no property speaks |
| `PageCollection.py` 54 | the size of a page that two segments share is that of the last, so that a large frame is lost when segments are not in the order of their addresses | the images of `ImageLoaded` have them in this order, as ELF prescribes |
| `main.c` 233-301 | `get_frame_cap` finds frames in the last two levels only, a large one at its first slot only | `LookupAgrees` is about these |
| `MakeModel.hs` 875 | a copy of a masked copy has the rights of the original, while `capDL.md` 495-497 calls it a copy of the cap in that slot | `CopiesResolved` says so: the rights of the declared cap under the copy's own mask |
| `State.hs` 639 | a mapped cap may name the mapping of another frame, which the loader then hands over | `SameFrames` in `Unchecked` |
| `State.hs` 278 | a page table twice in one directory passes `uniquePD` | `Unchecked` |
| `STCC.hs` 86 | the saturated model that is written is the input: the difference is taken the wrong way round | `CSpacesSaturated` is about the CSpaces computed, not the model written |

`CheckedModelsStart` is not about RISC-V builds, where tables are in tables and `checkMappings`
looks at none of them.

## 4. What is proved

Each theorem below holds for every value of the constants that the named assumptions allow;
TLC evaluates the assumptions on every instance it checks. Every inductive invariant has been
checked with TLC on the instances of section 3 before it was proved.

| Module | Theorem | Statement |
|---|---|---|
| `CreateObjectsProofs` | `TypeCorrect` | `Spec => []TypeOK` |
| | `Creation` | `Spec => []CreationInv`, the inductive invariant |
| | `ObjectsNeverOverlap`, `DevicesAtTheirAddress` | `NoOverlap`, `DeviceAtPaddr` |
| | `WatermarksOnlyGrow` | `WatermarkNeverReset`, an action property |
| | `Completion` | `Spec => [](CreationInv /\ SlotsInv /\ CompletionInv)` |
| | `SlotsGivenBack`, `ObjectsAllCreated` | `BorrowedSlotsReturned`, `EveryObjectCreated` |
| | `CreationImplementsPlacement` | dynamic creation implements `Placement` |
| `StaticSystemProofs` | `StaticTypeCorrect`, `StaticCreation` | types and bounds, the inductive invariant |
| | `ObjectsAtToolAddress` | `AtToolAddress` |
| | `StaticImplementsPlacement` | static creation implements `Placement` |
| | `LoadableNeverRefused` | `NeverRefused`: a loadable model never ends in an abort |
| | `CoversAlwaysAcceptable`, `ObjectsAllocatedOnce` | `CoversAcceptable`, `AllocatedOnce` of the composed system |
| `InitSystemProofs` | `ThreadsAlwaysConform`, `IrqsAlwaysConform` | `ThreadsConform`, `IrqsConform` |
| | `CSpaceAlwaysConforms`, `VSpaceAlwaysConforms` | `CSpaceConforms`, `VSpaceConforms` |
| | `LoaderQuietAfterStart` | `QuietAfterStart`, an action property |
| `ToolProofs` | `Analysis` | the inductive invariant |
| | `WarshallClosure` | after `warshall` the leak matrix is `Chains` |
| | `Saturation`, `FlowsAreStable` | `CSpacesSaturated`, `FlowsStable` |
| | `FreeAlwaysUnreserved`, `UntypedsAlwaysAccepted` | `FreeIsUnreserved`, `UntypedsAccepted` |
| `StackArgsProofs` | `StackInvariant`, `StackAligned`, `ArgumentsOnStack` | the invariant, `StackStaysAligned`, `ArgsOnStack` |
| `LoadFramesProofs` | `LoadInvariant`, `FillsStayInFrame`, `FramesFilled` | the invariant, `FillsInFrame`, `FrameContents` |

### Dynamic creation

From `ConstantsAssumption` and `ModelsAssumption`, hence for every number of objects, every
memory layout and every order of objects.

`NoOverlap` is not inductive: that a new object does not overlap an old one follows only if
the old one lies below the watermark (`BelowWatermark`) and the kernel has not
forgotten the watermark. So the invariant has `WatermarkHeld`: an untyped whose watermark has
moved has a child. Creating objects only adds children, except in the search, which
deletes them: there `HoldState` says that the held cap is a child of the untyped
searched, in a slot that no other step touches. When the search succeeds, the
held cap is deleted but the object found is a child itself. `OrigSlotsTaken` and
`OrigFromBoot` connect the recorded caps to these facts. The invariant about watermarks is
stated while `Creating`: the ASID pool phase makes children of untypeds that are
themselves objects and does not retype the boot untypeds any more.

`CompletionInv` adds what the loops have achieved: every object before `obj_id_index` has a cap
of its own with the object's type and size, or is a pool whose cap stands in the ASID table.
That is also what the refinement needs. A recorded cap maps to a place of `Placement`; the step
that records it takes memory behind the watermark, and by the invariant every recorded cap of
that untyped lies below it, so the step is a `Place`; every other step changes no place. A pool's
cap replaces that of the untyped it was made from, at the same place. The assumption that every
pool is in the table is used here only: a pool that is not would stay an untyped.

### Static creation

From `ASIDPoolSizeAssumption` and `StaticModelsAssumption`: derivations name objects, children
have a size, the pools are those of the ASID table, each once, and the boot untypeds do not
overlap. Whether the model is consistent is not assumed; `AtToolAddress` and the refinement are
about those that are.

The invariant, `CoversFollowed`, says that each watermark is behind the last child made
(`Watermarks`), that exactly the places passed by the two loops have objects (`MadeInOrder`), and
that each is at the tool's address (`AsComputed`). A child is put at the next aligned address
after the watermark, and consistency says that this is where the tool has the next child.
`LoadingInv` is for `NeverRefused`. The search with `bi_start` finds each untyped because only
matched entries are left behind (`EntriesUsed`); the free slots do not run out because as many
are taken as places are passed (`SlotsCounted`, a cardinality); and the second pass finds an
untyped without children because no cap has been made from the slot of an object
(`EntriesApart`). Together with termination, which TLC checks, this is `ConsistentModelsCreated`.

### Best-fit allocator

From `SystemsAssumption`: the untypeds have sizes that are powers of two (`GoodInput`); their
addresses and the objects are arbitrary. The steps of the allocator are proved in `BestFitProofs`;
`StaticSystemProofs` cites them through an INSTANCE of that module, adds the steps of the other
parts, and states the two theorems for the composed system.

Neither property is inductive. A new child is aligned, and ends before the next object with an
address, only because of the calls of `_fill_from_objects` that are under way. `FillInv` says where
each of them is: there is a sequence of beginnings, one per call, such that each block is aligned to
its size and ends before the limit of `_use_untyped`, is the first or the second half of its
caller's block, and the watermark is at the beginning of the last one, or at its end once it has
been filled. `CoverInv` adds to `CoversAcceptable` that untypeds are aligned, that the watermark
stays inside the untyped, that nothing is in the untypeds not yet reached (the allocator would
otherwise put a second object there), and that the placeholders of the untyped in work are known
before it is recorded. `QueueInv` says that exactly the queued objects have no place, and that no
object with an address is left when the rest of memory is filled.

That `add_untyped` inserts where it should, what a sum over children is, and what powers of two
divide is induction over data. The library's induction theorems take an operator, which the
provers cannot instantiate; `ProofLemmas` has forms of them that take a set or a function instead
(`LeastElement`, `SetInduction`, `PrimitiveRecursion`), derived from the well-ordering of the naturals.

### System initialisation

From `SpecsAssumption` and `NodesAssumption`, for every model that these allow, every build and
number of cores, and any number of address spaces and CNodes. The conformance properties speak only
of states in which a thread runs, so they say nothing of the states that lead there. `Handled(q)`
is the set of iterations of phase `q` that are over: all of them if `q` is before `pc`, the first
`i - 1` of the current phase, none of a later one. The invariant says what these have left behind:

* `Typed`: the tables have their domains. `RootsInv`: the roots that `mark_vspace_roots` has renamed
  are the address spaces of the threads it has passed.
* `SlotsInv`: the boot caps stay where they are, but for the interrupt control cap; a slot in the
  table of interrupt caps is one the loader has taken and has the handler of that interrupt; one in
  `mapped` has a frame cap of that entry, with all rights and a mapping at one of its places, or has
  been moved away.
* `IrqInv`, `TcbInv`: handled interrupts and threads are bound as the model says, guards and both
  fault endpoints included.
* `VSpaceInv`: every page in an address space comes from an entry of the model, and every handled
  entry has its page, or its table if the model is well formed; no table is mapped before
  `init_vspace`, and a table that is mapped is not itself an address space with an ASID.
* `CNodeInv`: a filled slot belongs to an entry of the model, and every handled entry has its slot
  filled with a cap that conforms.
* `RunInv`: while a thread runs, `pc` is `start` or `done`.

By the last part all loops of the other phases are over when the first thread runs, so `Handled` is
all the work of each phase, and that the lists of `Work` have every interrupt, thread, table entry and CNode
entry of the model is a lemma about them: this is conformance. The parts depend on each other. That
the cap put into a CNode conforms needs `SlotsInv` for mapped frames and interrupts, and that a
later iteration does not spoil it needs that a slot is filled only when it is empty. `QuietAfterStart`
follows from `RunInv`, since the actions of `start` change nothing but `running`, `pc` and `i`.

### Prediction of untypeds

From `InputsAssumption` and `BitsAssumption`: memory and device regions do not overlap, the reserved
regions (the kernel and the device tree behind it) are in order, and at most one of them is empty.
The last part is needed and true of `main`: after an empty region the code looks at the next one
without asking whether that is empty too, and two of them in a row make it drop memory.

`Accounted` says that what is free already, and what is left of the queue without the reserved regions
that are left, is the memory without everything reserved. It fails when a reserved region is dropped
that still covers something of the queue, and that this happens for `Spanning` regions only needs
`StartsBehind`: where the start of the first available region has moved, the address before it is
reserved and no reserved region that is left begins before it. `FreeInOrder` keeps the free regions ascending and inside
the memory; hence they and the devices are apart when the cutting begins. From there on `Cutting` is
kept: what is left of the regions (`RegionsLeft`), every untyped aligned and in a part of a region
already cut (`UntypedsPlaced`), no two overlapping (`UntypedsApart`), and every aligned block of the
smallest size that begins before the cut inside an untyped (`BlocksCovered`). The last one is about
`SizeBits`: it is the largest power of two that fits and to which the start is aligned, so an
aligned block that begins in a piece ends in it, and a piece that is thrown away has no such block.

### Access analysis

From `NAssumption` (there is a TCB). `Chains` is defined without recursion: `u` is reached
from `t` if it is in every set of TCBs closed under direct leaks from `t`. It is transitive and
is contained in every transitive relation with the direct leaks, so that for the closure it is
enough that `warshall` ends with a transitive matrix inside it. In the middle of a round the
matrix is not transitive for the nodes of earlier rounds either: a step added for the row `i`
may start a way through an earlier node whose end is only reached through `k`. `RoundsDone`
says exactly this. `SaturatedSoFar` says what the CSpaces are in the middle of the one pass: those
before the head are final, the others have the caps of the TCBs before the head; the head may
take from CSpaces that are themselves extended because leaks are transitive. For `FlowsStable`
a flow between two saturated CSpaces is traced to the TCBs the two caps came from, between which
a flow was entered, and those share authority with the TCBs that got the caps.

### Thread arguments and frame contents

`StackArgs` assumes that page and alignment divide the address space and that the frames of an
address space do not overlap (`SizesAssumption`, `ThreadsAssumption`). `Written` keeps the
arguments written so far inside the page below `Top`; the test of `CrossesPage` is what keeps
them there, and the page's frame is the only one seen at these addresses. Alignment is a
computation with remainders from it.

`LoadFrames` assumes the shape of chunks and fills only (`FramesAssumption`), and that `2 ^ Width`
is a positive number, which the provers do not know of. `Cached` says that the table has the last
chunk of every id so far and `Filled` that every byte is what the last fill so far says; each fill
is shown to write exactly the bytes that `Says` gives it.

### Only model-checked

* Liveness: `CreationTerminates`, `SystemStarts`, `CheckedModelsStart`, `AllocationEnds`,
  `BuiltSpecLoads` and the end of `ConsistentModelsCreated`. Fairness is beyond the prover.
* `CSpacesComplete`: the walk over CNodes is a recursive function over the graph. The library's
  induction theorems cannot be instantiated here, and the induction over sets of `ProofLemmas`
  has not been carried through for it. The same holds for `SlotsAsDeclared`, `CopiesResolved`,
  `TreeOfNumbered`, `ImageLoaded`, `GivenFramesMapped`, `LookupAgrees`, and for `NoFragmentation`
  and `OutOfMemoryJustified`, which compare sums.
* `KernelFollowsAllocator`: `StaticSystem` collects the covers with the sorting operators of
  `SequencesExt`, which are opaque to the prover. `CoversAlwaysAcceptable` and
  `ObjectsAtToolAddress`, the two halves on either side of the sort, are proved.

`MCStaticSystem` uses a RECURSIVE operator as the reference for `OutOfMemoryJustified`, and no
proof extends it.

## 5. What is left and what is not modelled

The components are modelled and the safety of the loader, of the allocator and of the analysis is
proved. What could still be proved is, in order of what it would say:

1. `KernelFollowsAllocator`, with a definition of the order of covers that does not sort by an
   operator.
2. `ImageLoaded` and `GivenFramesMapped`: the invariant is that of `InitSystem`'s `VSpaceInv`, but
   pages come from a binary search over regions.
3. `SlotsAsDeclared` and `TreeOfNumbered`: three passes that count, each with an induction over the
   declarations.

Not modelled:

* The parsers and the text printers: pure text. The command line, ELF reading beyond the
  arithmetic of segments, the build files.
* `init_copy_frame` and `init_copy_addr`: which of its own frames the loader unmaps is computed
  from linker symbols and from the order of the kernel's page tables, which nothing under `src/` says.
* VCPUs, I/O spaces, domains, cache maintenance: calls with no effect on what the properties say.
* `ObjectAllocator`, `CSpaceAllocator` and `RenderState`: they count names and slots.
* The checks of `State.hs` on covers, ASID pools and architectures, and the attributes of each
  kind of object in `MakeModel.hs`: a table lookup each.
* The Rust program: its loader is in another repository.
