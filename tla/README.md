# A TLA+ specification of KKM

KKM (Kontain Kernel Module) lets a monitor process run a payload in its own
address space below the Linux kernel's: a virtual machine without
virtualisation hardware. The specifications here model the module's C code
(`src/kkm/`), check it with TLC on small instances and prove what matters most
with TLAPS.

## The system

The monitor opens `/dev/kkm` and creates a *kontainer* (`struct kkm`), its
virtual machine. It adds *kontexts* (`struct kkm_kontext`), its virtual cpus, and
gives the kontainer memory slots. A monitor thread that calls `KKM_RUN` on a
kontext enters the payload and stays there until the payload makes a system
call, takes an exception, or a signal arrives. Kontainer and kontext are
reached through anonymous-inode files; whoever drops the last reference to a
file makes the kernel call its `release`.

| Component | State | Operations | Made correct by |
|---|---|---|---|
| Kontainer and kontext lifecycle (`kkm_main.c`, `kkm_kontainer.c`, first part of `kkm_kontext.c`) | `reference_count`, `kontext_count`, `kontext_lock`, the slots `kontext[]` with `used`, `first_thread`, guest area and shared pages; the files | create, add, mmap, close and release, destroy | exact counters; nothing reachable is freed; everything is freed in the end; one first thread; the slot search ends |
| Module load and unload (`kkm_main.c`) | the registered device, the global kx page tables, the guest idt, `kkm_object_id`, cpu features | `kkm_init`, `kkm_exit`, open of `/dev/kkm` | nothing reaches a service before it exists or after it is gone; object ids are unique |
| Memory slots and address translation (`kkm_main.c`, `kkm_kontext.c`) | `mem_slot[]`, `mem_slot_count`, `mem_lock` | `KKM_MEMORY`, `kkm_guest_va_to_monitor_va` | slots do not overlap, the count is exact, a translation uses one consistent slot |
| Page tables (`kkm_mmu.c`, `kkm_mm.c`, `kkm_kontainer.c`) | per-cpu kx entries, per-kontainer pgds, the private area hierarchy | init, cleanup, `kkm_mmu_sync`, `kkm_mmu_update_priv_area` | what is allocated is freed once; the payload sees the monitor's memory |
| Run protocol (`kkm_kontext.c`, `kkm_main.c`) | registers, `syscall_pending`, `ret_val_mva`, `exception_posted`, `new_thread`, `first_thread`, repeat-fault counter, shared run and private pages | `KKM_RUN` with its loop, system calls, exceptions, page faults, `KKM_KONTEXT_REUSE`, get and set save info | the stack pointer is adjusted once and undone once; a signal always ends the loop; a fault that is never resolved does too; a snapshot restored elsewhere continues the same system call |
| World switch (`kkm_kontext.c`, `kkm_guest_entry.S`, `kkm_guest_exit.S`, `kkm_idt.c`, `kkm_fpu.S`) | cr3, cr4, segments, MSRs, idt, debug registers and extended state of the cpu; `current_kontext`; the TLB owner of each cpu | `kkm_kontext_switch_kernel`, `kkm_switch_to_gk_asm`, exits through the guest idt, interrupt forwarding | the native state is back before interrupts are; each kontext gets its own guest area, id and TLB contents; no interrupt is lost |
| Interrupt stubs and tables (`kkm_intr.S`, `kkm_intr_table.c`) | none | 256 stubs | they name their own vector |
| Platform (`kkm_platform_native.c`, `kkm_platform_pv.c`) | none | cr3/cr4/idt access | thin wrappers |
| Statistics, trace, redzone, format conversion (`kkm_misc.c`, `kkm_trace.c`) | counters | | diagnostics only |
| Test program (`test_kkm.c`) and packaging | | client of the ioctls | |

The components meet in four places: an ioctl on a file holds a reference to it,
so `release` cannot run under a `KKM_RUN`; `kontext_lock` serialises adds, and
one statement of a release; `pf_lock` serialises the page faults of a kontainer;
`mem_lock` covers `KKM_MEMORY` but not the translations that read the slots.

What is hard to test in this code is listed in `PROJECT.json` under `hazards`,
each at its line, with the properties that would catch it.

## The modules

| Module | Question | Abstract specification | Proofs |
|---|---|---|---|
| `KkmLifecycle` | who frees what, and when | `KkmHandles` | `KkmLifecycleProofs`, `KkmCountProofs` |
| `KkmRun` | what a payload thread finds in its registers | `KkmPayload` | `KkmRunProofs` |
| `KkmMemory` | which memory an address of the payload means | `KkmRegions` | `KkmMemoryProofs` |
| `KkmMmu` | whether the payload's page tables are those of the monitor | | `KkmMmuProofs` |
| `KkmSwitch` | whose registers and translations a cpu has | | `KkmSwitchProofs` |
| `KkmVectors` | which code serves an event in the payload | | `KkmVectorsProofs` |
| `KkmInit` | what insmod, rmmod and failed creations leave behind | | `KkmInitProofs` |

The component modules `MC...` give the constants their values for TLC; each
`.cfg` is one run. The modules meet where the code does, and each takes from the
others what those show:

- `KkmRun` treats the translation of an address as right or failing; that it is
  right is `TranslationRight` of `KkmMemory`. Its page fault is one step; what
  happens in it under `pf_lock` is `KkmMmu`.
- `KkmMmu` finds a private page by its slot, at the place `KkmMemory` has it.
- `KkmSwitch` models one entry and exit, which in `KkmRun` is one step; the
  choice of the handler that ends it is `KkmVectors`.
- The lazy flush of `KkmSwitch` compares ids of kontainers: that no two kontainers
  ever get the same one is `IdsUnique` of `KkmInit`.
- In `KkmInit` a kontainer's file is the kontainer; that the last reference goes
  with the last file is what `KkmLifecycle` shows.

There is no composition of two of the detailed modules: `KkmLifecycle` with
`KkmRun`, for one, has no state in common but `first_thread`, and the product of
their state spaces is out of reach.

## KkmLifecycle

One kontainer, a table of `MaxContexts` slots (`KKM_MAX_CONTEXTS`), and
`Threads` monitor threads, each in one system call at a time.

| Variable | Code |
|---|---|
| `kkm` | the `struct kkm` itself: none, alive, freed, or leaked (allocated, nothing refers to it) |
| `reference_count`, `kontext_count`, `kontext_lock` | the fields of that name. A count of 0 that is decremented saturates at -1 (`refcount_t`); `kontext_count` is a `uint32_t` and wraps at `CountMod` |
| `allocated[i]`, `used[i]`, `first_thread[i]` | `kontext[i] != NULL` and its fields |
| `made_first[i]` | what `first_thread` was when the kontext was made: a history, for the condition on `SetSaveInfo` and the proofs |
| `guest_area[i]`, `mmap_area[i]` | pages of `kkm_kontext_init`; pages shared with the monitor |
| `kontainer_file`, `file[i]` | state of the `struct file`: none, hidden (installed, its number not yet returned), open, closed (kept by a mapping or a call) |
| `mapped[i]` | the monitor maps the file |
| `pc`, `slot`, `ret_val` | where a thread is, the slot it works on, `ret_val` of the add |
| `killed` | the monitor got a fatal signal |

Actions follow the code's steps that other threads can come between:

- `AddBegin`, `AddLock`/`AddRefused`, `AddScanBusy`*, `AddClaim`, `AddGetFd`,
  `AddMapPages`, `AddKontextInit`, `AddFinish` are `kkm_add_execution_kontext`
  from the mutex to the return; `AddNoMemory`, `AddGetFdFails`,
  `AddMapPagesFails`, `AddKontextInitFails` and `AddError` its failures.
  `AddScanBusy` is one round of the slot search, because releases change `used`
  behind it without the lock. `AddRunsOff` is the search past the end: the word
  after the table is the owner field of `pf_lock`, NULL while no fault is
  handled, and the thread dies with the lock held.
- `ReleaseFree`, `ReleaseUnuse`, `ReleaseFirst`, `ReleaseCount`, `ReleaseDown`
  are the statements of `kkm_execution_kontext_release`; only `ReleaseCount`
  takes the lock. `KontainerRelease` is `kkm_kontainer_release`.
- `RunBegin`/`RunEnd` are any ioctl on a kontext, and `SetSaveInfo` between them
  is `KKM_KONTEXT_SET_SAVE_INFO`, the one ioctl that writes one of the module's
  variables: `first_thread`, with what the monitor supplies. `Mmap`, `Munmap`,
  `CloseKontext`, `CloseKontainer` are what the monitor or its exit does. Each may
  drop the last reference of a file and start its release.
- `CreateKontainer`, `CreateGetFdFails`, `CreateInitFails`: the create ioctl.

`AddFinish` is one step although it raises the two counters, unlocks and
returns: the lock is held for all of it but the return, no other code reads
`reference_count` except to drop a reference of its own, and the kontainer's
file, which the ioctl holds, keeps that count above zero.

The driver takes any `first_thread` from the monitor. `FirstElsewhere` says
whether the monitor restores the first thread's save info on a kontext that was
not made as the first one, as it would to continue a snapshot on another kontext.
Two live kontexts can then be the first thread, so the runs and
`FirstThreadUnique` and `FirstThreadStays` have it FALSE: the monitor may set
`first_thread` again only on a kontext that was made with it, and may clear it
anywhere.

Left out: object ids, `task`, `index`, `vcpu_id` beyond its check, statistics,
and which of the two shared pages was allocated first. The monitor is assumed to
close only descriptors that were returned to it, and one thread's exit closes
everything once all have left the driver. After a failed create the model makes
no second kontainer.

### Runs

| Run | Threads, slots | Failures | Shows |
|---|---|---|---|
| `lifecycle_safety` | 3, 3 | `kzalloc` | every interleaving keeps `reference_count` and `kontext_count` exact (`RefcountExact`, `KontextCountExact`); the last holder and no earlier one frees the kontainer (`ImplementsHandles`) with nothing left over (`ReclaimComplete`); the slot search ends (`SearchFindsSlot`); with `FirstElsewhere = FALSE`, one first thread at most (`OneFirstThread`), and a kontext's `first_thread` is cleared by the monitor alone, never by the late `first_thread = false` of the slot's last owner (`FirstThreadKept`) |
| `lifecycle_liveness` | 3, 2 | `kzalloc`, descriptors, the kontainer's own initialisation | nothing reachable is freed (`NoUseAfterFree`), which these failures leave true; every add returns (`AddReturns`); a killed monitor's kontainer is freed unless such a failure has leaked it (`ExitReclaims`) |
| `lifecycle_failures` | 2, 2 | all | every error path gives the lock back (`LockDiscipline`), a slot that can be claimed owns no pages (`UnusedSlotOwnsNoPages`) |
| `add_returns` | 1, 1 | `getfd`, `kontext_init` | **violation**: a return value that is not negative need not be the descriptor of a kontext that can run |

Three threads are what the hazards need: one releasing a slot, one adding, one
closing or running. With three slots the search can pass a slot that becomes
free behind it and meet a used one ahead. `CountMod` must keep a wrapped counter
apart from every legal one: where no allocation but `kzalloc` fails it only has to
be larger than the number of kontexts that are ever counted, and in
`lifecycle_failures`, where the counter does wrap, it is 6, twice the slots and
once the threads (`Wide`, as in the theorem below). Threads are interchangeable and declared symmetric
for the safety runs; the liveness run uses no symmetry. `Orphaned` names what a
failure may leave for good: a kontainer without a descriptor or with a
saturated count, a used slot without a file.

Why the safety run allows no failure but `kzalloc`: when `alloc_page` or
`kkm_kontext_init` fails, the descriptor is already installed, and its later
close decrements both counters without the increments. `kontext_count` then
wraps and the kontainer may be freed under its holders. The properties are false
there and the hazards say so; `lifecycle_failures` checks what survives. In
that run deadlock is not an error: an exhausted search stops its thread for good
(`AddRunsOff`) with `kontext_lock` held, and a thread that waits for it waits for
ever. After a premature free the model treats the freed memory as still holding
its contents.

Fairness (`FairSpec`): a thread inside the driver is scheduled until it
returns, and strong fairness covers its wait for `kontext_lock`, because Linux
hands a mutex to a waiter that has waited too long. A killed process gets out of
`KKM_RUN` (`signal_pending` is tested on each round of the loop) and its exit
closes every file and mapping. Nothing makes the monitor begin or end a call.

### Proofs (`KkmLifecycleProofs`, `KkmCountProofs`)

For every number of threads and slots and every set of failing allocations:

- `TypeCorrect`: `Spec => []TypeOK`. The type invariant alone is not inductive:
  a return value gets the slot's number and a release writes to its slot, so
  `SlotOK` says that a thread between claiming or taking a slot and letting it
  go has one inside the table.
- `LockCorrect`: `Spec => []LockDiscipline`. Inductive together with the type
  invariant.

- `PagesCorrect`: `Spec => []UnusedSlotOwnsNoPages`. Part of it is who holds a slot
  (`PagesInv`): a thread from the claim to the end of the add, a file, a release
  until it gives the slot up, and no two threads the same slot. That a slot with
  pages is never claimed again needs more, because the search takes a slot whose
  memory is gone for a free one, and after a failed allocation the uncounted
  close can free the kontainer with its slots while its file is open. What saves
  the slots then is `TallyInv`: `kontext_count` and `reference_count` are wrong by
  the same amount, so when the second reaches zero the first has wrapped, and the
  count check refuses every add from then on; the releases still to come do not
  bring it back. It needs a counter that is wide enough (`Wide`: twice the slots
  and once the threads, 2^32 in the code).

Where every failure but those of `alloc_page` and `kkm_kontext_init` may happen
(`EveryFileCounted`), which is more than `lifecycle_liveness` lets fail:

- `UseAfterFreeNever`: `Spec => []NoUseAfterFree`. The reference count may then be
  too high, as a kontext without a descriptor is counted and never released, and
  is 0 for a kontainer whose initialisation failed. `HeldInv` says that a kontainer
  that lives has a reference for each of its holders, or none and nobody who could
  drop one (`Abandoned`); `BackedInv`, that every file that is handed out has a
  kontext with its pages.

These rest on `ConstantsAssumption` and the condition named. The theorems of
`KkmCountProofs` assume `OnlyKzalloc`, that no allocation fails but the slot's, for
the reason given above: with the others the counts are wrong. Under it, for every
number of threads and slots:

- `RefcountCorrect`, `KontextCountCorrect`: both counters are exact.
- `ReclaimCorrect`: nothing is left in a kontainer that is freed.
- `SearchSucceeds`: the search of an add ends inside the table.
- `FirstThreadUnique`, `FirstThreadStays`: `OneFirstThread`, `FirstThreadKept`,
  these two with `~FirstElsewhere` besides (`MadeInv`: `first_thread` is then set
  only where `made_first` is).
- `HandlesRefined`: the lifecycle implements `KkmHandles`.

They share one inductive invariant, `CInv`, because each part needs the others:

- `OwnerInv`: what a slot holds is its file's or one thread's. An add owns its
  slot from the claim until it hands the descriptor out, a release from the last
  reference until `used = false`, and no two threads own one slot (`Alone`).
- `KontainerInv`: an add has the kontainer's file, which one thread releases.
- `RoomInv`: the room that the count check found lasts until the add has counted,
  as whoever counts has the lock. So `kontext_count` does not pass its limit.
- `SearchInv`: a slot the search has not passed is unused. It begins with
  `SlotLeft`: if every slot were used, each slot without a counted kontext would
  belong to a release that is still counted, another one for each, and
  `kontext_count` would have been at its limit when the add checked it. A release
  only adds unused slots behind the search's back.
- `FirstInv`: an add that finds `kontext_count = 0` has no live kontext and no
  release before its `first_thread = false` beside it, since these are counted. It
  is about `made_first`, which `SetSaveInfo` does not change.

The counts themselves move with the sets that they count, one lemma for each kind
of step (`CountFrame` for those that move none). A reference is dropped by one who
has it (`Dropping`), and with the last one gone no thread is left in the driver
(`NothingLeft`), so freeing the slots hits nobody. For the refinement, `Mapping`
reads the variables of `KkmHandles` off the two counters, and `Moves` says what a
step may do to these. The liveness properties are model-checked only.

## KkmRun

One kontext and whoever uses it: the payload thread, the monitor thread that
calls `KKM_RUN`, and signals. The payload's stack is `0 .. StackTop`. It has a
stack pointer and two general registers, `rax` with the answers to its calls and
`rbx`, which an exception overwrites.

| Variable | Code |
|---|---|
| `pc` | where the kontext's thread is: in the monitor, in the loop of `kkm_kontext_switch_kernel` (`begin`), in the payload; `new`, `reused` and `ended` when the kontext has no thread |
| `regs` | `ga->regs` |
| `kontext` | the fields that `struct kkm_save_info` holds, among them `reason` of the private page |
| `mem` | `ret_val` of the `struct kkm_hc_args` at an address of the stack |
| `exit_reason`, `ret_val` | `kkm_run->exit_reason`, what the last `KKM_RUN` returned |
| `prev_fault`, `trap_repeat_counter` | `prev_trap_addr` and `prev_error_code` if `prev_trap_no` is a page fault; the counter |
| `signal_pending` | the flag of the thread in `KKM_RUN` |
| `saved` | the monitor's: what it saved for the handlers that run, innermost last |
| `cloned` | the monitor's: it gave the kontext to a thread that a system call cloned, which has not run |

`RunEnter`, `RunImmediateExit`, `RunResponseFaults`, `SignalSeen` and
`EnterPayload` are `kkm_kontext_switch_kernel` up to the payload; its parts
`CloneAdjusted`, `SyscallAnswered` and `ExceptionUndone` are operators in the
order of the code. The `Process...` actions, `PageFaultDone`, `PageFaultGivesUp`
and `ForwardInterrupt` are the payload's trap with `kkm_process_intr` and what
the loop does with its result. The monitor's actions are compositions of ioctls:
`StartHandler` is `KKM_GET_REGS`, `KKM_KONTEXT_GET_SAVE_INFO` and `KKM_SET_REGS`,
`EndHandler` `KKM_SET_REGS` and `KKM_KONTEXT_SET_SAVE_INFO`, `EndThread`
`KKM_KONTEXT_REUSE`. What the monitor does is external code: it answers a call
in its record, runs handlers below the stack pointer of the thread they
interrupt, and ends a handler after a successful exit by a call. It gives up a
thread whose stack could not take a record (`torn`): the driver has then moved
`rsp` and does not move it back.

The two constants `ReuseFirst` and `HandlerFirst` are choices of the monitor
that the driver allows and does not handle; the runs leave them out, and
"Departures" below says what they lead to.

Left out: the instruction pointer and all other registers; the copy of the
registers in the run page (`kkm_dirty_regs`, `kkm_valid_regs`); the 32 bits that
the address of a record is cut to in the private page; why an address cannot be
translated; `pf_lock`; the record's contents but for the answer; the
difference in size of the two exception records; a snapshot restored on another
kontext, which gets the same eight fields; a failing copy of the save info; two
threads in `KKM_RUN` on one kontext. Once a record is taken off the stack its
answer counts as `Zero` again, as nobody reads it before the next record is
written there.

### Runs

| Run | Bounds | Shows |
|---|---|---|
| `run_safety` | two values, two faults, one handler, 9 words of stack, records of two words | a payload thread's registers are its own across calls, exceptions, faults, signals, failed runs and a handler (`ImplementsPayload`); nothing is pending inside (`NothingPendingInside`); the exit says what will be undone (`ExitAgrees`); only clones are adjusted (`CloneAdjustExact`) |
| `run_nested` | one value, two faults, one repeat, two handlers in each other, records of one word | each level makes calls of its own, and the records stay apart (`RecordsApart`); a signal ends `KKM_RUN` (`SignalEndsRun`); so does a fault that keeps coming back (`FaultLoopEnds`) |

The stack must hold, for each level of handlers, a call's record with its
redzone and one word: 7 words with records of two words and one handler, 8 with
records of one word and two handlers. After exceptions, which take stack too, the
innermost call does not fit any more: that is the stack that cannot take a
record. Two values tell a right answer from a wrong one; two faults are what
resets the counter. `MaxRepeat` is 1 in place of 16: the counter is compared
with it and with nothing else. `run_nested` needs one value only, as its
question is where the records are. `Depth` is how many words
of the stack a function of the payload may use beside the records.

In `ImplementsPayload` the abstract registers are what the payload would see if
it ran now (`Logical`): the stack pointer above a record still to be taken off,
the answer that is in the record, the registers saved by an exception. Each step
of the driver must leave these alone, or change them as the payload's own call or
exception does.

Fairness: a thread in the loop is scheduled, and the payload is interrupted by
the timer (`ForwardInterrupt`), as it runs with interrupts enabled. The payload
need not do anything. `FaultLoopEnds` is about a payload that leaves by one fault
only: any other interrupt in between makes the driver forget the fault, and a
fault that is never resolved may then repeat for ever. That is what the code
does, and the property does not exclude it.

### Proofs (`KkmRunProofs`)

For every stack, record size, repeat limit, number of values and faults, and depth
of handlers:

- `RunTypeCorrect`: `Spec => []TypeOK`, from the inductive invariant `RInv`. The
  types alone are not inductive: an exception saves `rax` and `rbx`, which must
  then be the payload's and not an address or a number that the driver put there.
  `Whole` says that such registers are always covered by a call or an exception
  in progress, in the kontext or in what the monitor saved; `Inside`, that
  nothing is in progress while the payload runs, and that the counter is in bounds
  then.
- `NothingPendingCorrect`: `Spec => []NothingPendingInside`, from `Inside`.
- `ExitCorrect`: `Spec => []ExitAgrees`, inductive together with `RInv`.
- `CloneCorrect`: `Spec => CloneAdjustExact` if neither `ReuseFirst` nor
  `HandlerFirst`. `CloneInv` says that the driver's test for a clone is then true
  exactly of the monitor's clones that have not run.

- `RecordsCorrect`: `Spec => []RecordsApart`. `RecordInv` describes every level of
  handlers at once: a thread that waits in a call has its record where its stack
  pointer is (`OwnRecord`), and above all that the running thread has on the stack,
  records of exceptions included (`Beneath`); the same holds of every two threads
  in `saved` (`Nested`). Starting a handler adds a level below the others, ending
  it takes the lowest away, and no step of the thread that runs passes the one it
  interrupted.
- `PayloadCorrect`: `Spec => ImplementsPayload`, if neither `ReuseFirst` nor
  `HandlerFirst`. Each step of the driver and of the monitor is mapped to a step of
  `KkmPayload` or to a stutter. What the next run undoes gives back exactly what
  the thread believes to have (`RestoredView`), an answer written to a record
  changes the view of the one thread whose record it is, by `RecordInv`, and of no
  other, and `CloneInv` says when a clone's stack pointer is still to be moved.

`RunAssumption` is the only other assumption. The liveness is model-checked only.

## KkmMemory

`KKM_MEMORY` of several threads, and the translation of the payload's addresses
that several kontexts make meanwhile.

| Variable | Code |
|---|---|
| `mem_slot`, `mem_slot_count`, `mem_lock` | the fields of `struct kkm`; `mem_slot[MaxSlots]` is the word behind the table, which the bound check lets through |
| `call`, `arg`, `ret_val` | where a caller is in `kkm_set_kontainer_memory`, its argument, its result |
| `running` | the payload runs: from then on addresses are translated |
| `walk`, `guest_va`, `monitor_va` | where a kontext is in `kkm_guest_va_to_monitor_va`, its argument, its last answer |

`MemoryCall` is what is checked before the lock, `MemoryLock`, `MemoryCheck`,
`WriteUsed`, `WriteSize`, `WriteRest` and `MemoryUnlock` the rest of the call.
A slot is written in three steps because the translation reads it without the
lock (`TranslateHit`, then `TranslateAddress`). `TranslateLinear` needs no slot.
An address space is a row of areas, one for each top level entry, with the holes
at its ends and the base addresses computed as the macros of `kkm_kontext.h` do
it. `KkmRegions` is the abstract specification: regions come and go as a whole.

| Run | Bounds | Shows |
|---|---|---|
| `memory_safety` | two callers, one kontext, three slots of which two are the private area's, areas of 16, unaligned regions and a slot too many asked for | `mem_slot_count` is exact outside of the lock (`SlotCountExact`); every call adds or removes a whole region or nothing (`ImplementsRegions`); an address is translated to where the payload's page tables have it (`TranslationRight`); every call returns (`MemoryReturns`) |
| `memory_overlap` | one caller, two regions | **violation** of `NoOverlaps`: the overlap check passes over the used slots and looks at the free ones, and what it finds does not stop the call |

Two callers are what the lock is for; one kontext is enough as translations do
not see each other. Three slots are one of each kind. `Tried` has both ends of
every range, and addresses in no range.

Fairness: a caller goes on, and a mutex is handed to those who wait in turn
(strong fairness of `MemoryLock`). `SetFirst` says what the monitor does: it sets
the private area's two slots before it runs the payload and leaves them alone.

### Proofs (`KkmMemoryProofs`)

- `MemoryTypeCorrect`, `CountCorrect`, `RegionsCorrect` from the inductive
  invariant `MInv`: types; the holder of the lock is the one caller that is past
  `MemoryLock`; its argument and the slot it writes are what its step says; the
  count is that of the used slots, give or take the one being written. For
  `CountCorrect` nobody may ask for slot `MaxSlots`; `RegionsCorrect` is the
  refinement of `KkmRegions`, with initial states and each step mapped.
- `TranslationCorrect` under `SetFirst`, from `TInv`: once the payload runs the
  private area's slots are not written (`QuietInv`), what shows of a slot is a
  region that was asked for there (`WholeInv`), and a translation that has found
  its address in a slot would find it there again (`LookInv`). `RoomAsked` says
  that the vdso's region ends before the next one's base.

`MemoryReturns` is model-checked only.

## KkmMmu

The payload's page tables beside the monitor's, which they copy from.

| Variable | Code |
|---|---|
| `vma`, `native_entry`, `present`, `area_pt` | the monitor's: what it has mapped, the table below its top level entry for the payload's memory, the pages each table maps, the frames behind the private area's pages |
| `guest_entry`, `linked`, `guest_pt`, `slot` | the payload's: its copy of that entry, whether the private area's table is linked, that table (`kkm->mm` hierarchy), the private area's memory slot |
| `pf_lock`, `pc`, `fault`, `fault_area` | where a kontext is in `kkm_process_page_fault`, and with what |
| `synced_first`, `slot_kept` | habits of the monitor, chosen at the start: it calls `KKM_MEMORY` for memory it has touched before it runs the payload, and never unmaps all of it; it keeps the private area's slot and the memory there |

`Sync` is `kkm_mmu_sync`, part of every `KKM_MEMORY` (`SetMain`, `SetSlot`,
`ClearSlot`). `FaultLock` takes `pf_lock` and translates, `FaultRead` and
`FaultWrite` are the accesses that make the monitor's kernel map the page,
`FaultUpdate` is `kkm_mmu_update_priv_area` and the return, `FaultError` an
access that fails. `Map`, `Touch`, `Unmap`, `UnmapPrivate` are the monitor and its
kernel between any two of these. A top level entry stands for its level: with
five levels it is one of `low_p4d`.

`mmu_safety` has two kontexts (one faults while the other is in the middle of
it), two pages of memory (unmapping one keeps the table, unmapping both frees
it), one private page, one area, two tables, two frames, and all four
combinations of habits. It shows that the payload's entries are the monitor's
of now where the monitor keeps what the driver never takes back
(`EntriesCurrent`), that a fault taken to be resolved leaves the payload with
the page (`FaultResolved`), and that every fault ends, with `pf_lock` given back
(`FaultEnds`). The properties name the habits they need: without `synced_first`
the payload runs on an entry that the monitor's kernel has freed, without
`slot_kept` on a frame that is no longer the area's.

Fairness as for `KkmMemory`: a thread in the kernel goes on and gets the mutex it
waits for.

`KkmMmuProofs`: `MmuTypeCorrect`, `EntriesCorrect` and `ResolvedCorrect`, all from
`MInv`: the types; `FaultInv`, that each step of a fault has its page, and the
update of a private one the place it was found at; `SyncInv`, that under
`synced_first` the payload's entry is the monitor's or missing, and there when the
payload runs; `AreaInv`, that under `slot_kept` every fault looks in the slot's
area and the private table has its entries. `FaultEnds` is model-checked only.

## KkmSwitch

What the registers of each cpu hold, named for whom the value belongs to, while
threads migrate between cpus and enter and leave their payloads.

| Variable | Code |
|---|---|
| `regs` | cr3 (`space`), idt, LSTAR, TSS `sp0`, segment and gs bases (`segments`), stack, extended state, debug registers |
| `runs`, `pc` | the scheduler: the thread on a cpu; where a thread is in `kkm_kontext_switch_kernel` |
| `intr`, `saved`, `ga_cpu`, `ga_debug`, `debug_set`, `payload_xsave`, `valid_xsave`, `fpu_set` | the guest area and the kontext: `intr_no`, the native state kept for the way back, `cpu`, the debug registers and their flag, the extended state and its flag |
| `last_id` | `kkm_idt.desc_entries[cpu].last_id` |
| `kkm`, `mapped`, `tlb`, `requests`, `in_service` | the kontainer of a kontext, whether its one page is mapped, the translations a cpu has, the threads waiting for its flush, its interrupt controller |

`Prepare` disables interrupts and decides the lazy flush, `Save` and
`StartPayload` go to the payload, `Trap`, `SwitchToHost` and `Restore` come back,
`Process` is `kkm_process_intr` with the forwarding. `Schedule`,
`KernelTakesIpi`, `Unmap`, `UnmapDone`, `Remap` are the kernel. A cpu that is
between disabling and enabling interrupts sees only its own steps; they are
separate because other cpus may work on the same kontext.

`switch_safety` has two cpus and two threads with a kontext each, of one
kontainer or of two; one kontext uses debug registers and extended state. Shown:
a thread outside the switch has its own registers (`NativeRestored`), a payload
its own (`PayloadOwn`), no payload has a translation of another kontainer
(`TlbOwn`) or of memory for which `munmap` has returned (`TlbCurrent`), and
`munmap` returns (`UnmapEnds`). Two of each are enough for a kontext to be started on
another cpu than it left, on a cpu that another kontext or kontainer has used.

Fairness: a thread between disabling and enabling interrupts goes on; an
interrupt that is pending is taken in the payload, which runs with interrupts
enabled, and in the kernel whenever they are enabled again, however briefly
(strong fairness of `KernelTakesIpi`). The scheduler is not assumed to be fair.

### Proofs (`KkmSwitchProofs`)

For every number of cpus, threads, kontexts and kontainers:

- `SwitchTypeCorrect`, from `TInv`, which adds to the types that a thread inside
  is on one cpu (`CpuInv`) and that, in the payload, this cpu's `sp0` is its
  kontext (`Sp0Inv`).
- `NativeCorrect` if no two threads run one kontext (`OneThread`) and nothing sets
  the debug registers of a kontext that runs: `SInv` says for each place in the
  switch which registers are native, which are the payload's and where the
  others are kept (`RegsInv`), and that what a kontext keeps of its payload is
  the payload's (`KontextInv`).
- `PayloadCorrect` under these and without `KKM_SET_FPU` before the first run
  (`FpuInv`).
- `TlbOwnCorrect` and `TlbCurrentCorrect` without any assumption: by `LastInv` a cpu
  has translations of the kontainer in `last_id` alone, by `WaitInv` a payload's
  translation that is out of date belongs to a `munmap` that waits for this cpu.

`UnmapEnds` is model-checked only.

## KkmVectors

One event in the payload or in the guest kernel, from the cpu's frame to its
handler. `stack` is a sequence of named words; `Deliver` is the cpu, `Stub`
`kkm_intr_entry_<n>` through `intr_function_pointers`, `Common`
`kkm_intr_entry_asm`, `Syscall` the other entry, `kkm_process_intr` the choice of
the handler. `Replaced` are the entries that `kkm_idt_descr_init` overwrites, and
`GateLevel` the gates it opens for the payload's `int`.

`vectors_safety` covers every kind of event, every vector but 21 and 29, both
privilege levels and the low bits of `rip`. At level 0 gs may be swapped already:
the return to the payload executes `swapgs` and then `iretq`
(`kkm_guest_entry.S:267`, `:272`), so a fault of that `iretq`, or an NMI there,
comes from level 0 with the payload's gs (`AtReturn`). The run shows that the
trap's fields are what the cpu pushed, for these events too, and that the host
runs on its own gs base for all others (`EntryRight`); and that each event goes to
the handler it is for (`ServedRight`). For an event `AtReturn` the entry skips
its own `swapgs` (`kkm_guest_exit.S:2607`) and the host is left on the payload's
base; "Departures" has it. The state is finite as it stands; there are no bounds.

`KkmVectorsProofs` proves from `VInv`, which says what is on the stack at each
place and what the trap has once the host runs: `VectorsTypeCorrect` for every set
of vectors, and `EntryCorrect` and `ServedCorrect` for every set without 21 and 29.
The argument does not go through the vectors one by one: the stub of a vector
pushes what the processor has not, so the frame has the same shape for all.

## KkmInit

From `insmod` to `rmmod`, with processes that open `/dev/kkm`, create a kontainer
and close both.

| Variable | Code |
|---|---|
| `failing`, `cpu` | what may fail this time; what the cpu and kernel have (page table isolation, PCID, INVPCID) |
| `load` | where `kkm_init` or `kkm_exit` is |
| `registered`, `owner`, `refs` | the misc device, `THIS_MODULE` in its operations, the kernel's count of the module's users |
| `supported`, `full_flush`, `flushed` | `kkm_cpu_supported`, `kkm_cpu_full_tlb_flush`; an INVPCID has been executed |
| `in_use`, `kx`, `idt`, `object_id` | the pages allocated, `kkm_mmu_kx`, the idt page, `kkm_object_id` |
| `ids` | the ids that `kkm_create_kontainer` has given out since insmod, in order: a history, which outlives the kontainers as `last_id` of the lazy flush does |
| `device`, `pc`, `part`, `kx_entry` | per process: its open device, where its creation is, its kontainer's pages and kx entry |

`Register`, `SetOwner`, `MmuInit`, `IdtInit`, `SetObjectId` are `kkm_init` and its
failures, `ExitIdt`, `ExitMmu`, `ExitDevice` `kkm_exit`. `Create`, `TakeId`,
`InitPgd`, `InitP4d`, `InitLow`, `InitPml4`, `CopyPgd` are the create ioctl with
`kkm_kontainer_init`, each with its own cleanup or without one. Pages are blocks;
the lowest free one is taken, so that what is freed too early soon belongs to
somebody else.

`init_safety` has two processes, 16 blocks (the driver and two kontainers with
five levels need 16), ids up to 4, and either only the failures that the driver
cleans up after (`CleanFailures`) or any. It shows that module references are
exact (`ModuleRefsExact`); that, with clean failures, the kx hierarchy is there
for every kontainer (`KxIntact`) and every page has one owner until it is freed
(`PagesOwned`); that no two kontainers get the same id, those closed long ago
included (`IdsUnique`), since a cpu's `last_id` may still be the id of one of
them; and that INVPCID is executed only where the cpu has it (`FlushSupported`).
Deadlock is not checked: a failed
`insmod` stops the system for good.

### Proofs (`KkmInitProofs`)

`FlushCorrect` on kernels with page table isolation (`FlushInv`). If the device is
used only once `insmod` has returned: `RefsCorrect` and `IdsCorrect` from `FileInv`
(something is open only between insmod and rmmod, no id that was ever given out is
above the count), and, with at least four blocks, `PagesCorrect` and `KxCorrect` from `PageInv`, which says for each step of a
creation which blocks it has and that they are nobody else's (`StageInv`,
`OwnedInv`), for any number of processes and blocks. `InitTypeCorrect` holds
whatever fails; by `EmptyInv` insmod finds the memory that it takes.

## Departures

The code leaves some things to the monitor or to luck. The two runs that end in a
violation show where it differs from what its comments or its users say. For the
rest the models have a constant or a value that takes the code there; the runs
leave it out, the properties are then as listed above, and with it TLC finds the
property below violated within seconds.

| What | Where | Setting | Violated |
|---|---|---|---|
| a kontext that could not be initialised is reported as success | `kkm_main.c:506`, `:524` | run `add_returns` | `AddReturnsKontext` |
| the overlap check skips the used slots and stops nothing | `kkm_main.c:579` | run `memory_overlap` | `NoOverlaps` |
| after `alloc_page` or `kkm_kontext_init` fails, the descriptor is open and its close counts down what was never counted | `kkm_main.c:519`, `:524` | `Failures` with `map_page` or `kontext_init` in `lifecycle_safety` | `RefcountExact`, `KontextCountExact` |
| `SET_SAVE_INFO` takes any `first_thread`: the first thread's save info on another live kontext makes a second first thread | `kkm_kontext.c:218` | `FirstElsewhere = TRUE` in `lifecycle_safety` | `OneFirstThread`, `FirstThreadKept` |
| `KKM_KONTEXT_REUSE` keeps `first_thread`: a clone on the first thread's kontext starts on its parent's record | `kkm_kontext.c:279` | `ReuseFirst = TRUE` in `run_safety` | `CloneAdjustExact` |
| `GET_SAVE_INFO` keeps `new_thread`: a handler before a clone's first run is adjusted in its place | `kkm_kontext.c:196` | `HandlerFirst = TRUE` in `run_safety` | `CloneAdjustExact` |
| slot 64 of 64 is accepted and counted | `kkm_main.c:554` | `Asked` with slot `MaxSlots` | `SlotCountExact` |
| a translation reads a slot that is being cleared or set | `kkm_kontext.c:1159` | `SetFirst = FALSE` in `memory_safety` | `TranslationRight` |
| the payload keeps the top level entry that the monitor's kernel has freed | `kkm_mmu.c:354` | `EntriesCurrent` without its condition `synced_first` | `EntriesCurrent` |
| the private area's entries outlive the slot and its memory | `kkm_mmu.c:513` | `EntriesCurrent` without its condition `slot_kept` | `EntriesCurrent` |
| two threads in `KKM_RUN` on one kontext share its guest area and saved registers | `kkm_main.c:211` | `KontextOf` that maps both threads to one kontext | `NativeRestored` |
| `KKM_SET_DEBUG` during a run restores debug registers that were not saved | `kkm_main.c:323` | `DebugAnyTime = TRUE` | `NativeRestored` |
| `KKM_SET_FPU` before the first run is lost | `kkm_main.c:317` | `FpuBeforeRun = TRUE` | `PayloadOwn` |
| on a kernel that preempts the driver, an interrupt is forwarded on a cpu that did not take it: the one that did waits for ever | `kkm_kontext.c:417`, `:767` | `Preemptible = TRUE` | `UnmapEnds` |
| vectors 21 and 29 push an error code and have the stub of those that do not | `kkm_idt.c:148` | `Vectors` with 21 or 29 | `EntryRight`, `ServedRight` |
| an event between the `swapgs` of the return and the payload leaves the host on the payload's gs base | `kkm_guest_entry.S:267`, `kkm_guest_exit.S:2607` | `EntryRight` without its condition `~AtReturn` | `EntryRight` |
| `/dev/kkm` works before `kkm_init` is done: files that do not count, an id counter that starts again | `kkm_main.c:933` | `EarlyUse = TRUE` | `ModuleRefsExact`, `IdsUnique` |
| an `insmod` that fails leaves the device registered | `kkm_main.c:949` | `load = "failed"` with `registered` | |
| when a page of a kontainer's hierarchy fails, the kx hierarchy of all kontainers is freed | `kkm_mmu.c:180` | `KxIntact` without its condition `Clean` | `KxIntact` |
| when the low page fails, the pages before it are lost | `kkm_kontainer.c:125` | `PagesOwned` without its condition `Clean` | `PagesOwned` |
| without page table isolation the flag for the full flush keeps its default | `kkm_main.c:880` | `Isolation = FALSE` | `FlushSupported` |
| a write fault writes back the byte it has read, over a store in between | `kkm_kontext.c:1004` | not in a model: `KkmMmu` has entries and no contents | |
| a `KKM_RUN` that failed in the middle of a system call has moved `rsp` | `kkm_kontext.c:1067` | the monitor gives such a thread up (`torn`) | |

Whether the monitor ever does what the settings say is not decided here: it is
not part of this repository.

## Proved and checked

Every detailed module has its type invariant proved; those of `KkmMemory`,
`KkmMmu`, `KkmSwitch`, `KkmVectors` and `KkmInit` are not checked by a run, as the
theorem says more. What the theorems rest on is the `ASSUME` of each module and
the conditions they state. Every invariant and every action property of a passing
run, and each of the three refinements, is a theorem. Model-checked only are the
temporal properties that need fairness: `ExitReclaims`, `AddReturns`,
`SignalEndsRun`, `FaultLoopEnds`, `MemoryReturns`, `FaultEnds`, `UnmapEnds`. Their
proofs would need `ENABLED` of the fair actions, which the proof system does not
reason about.

Every property of a passing run is also broken by a plausible change of the code,
kept as an operator named `Mutant` in the comment before the definition it
changes.

## Not modelled

- The relocation of the guest kernel's code: the copy to the private area, the
  patching of its gs-relative instructions and the checks of its size.
- The general registers, and `rflags` but for their place in the trap: single
  stepping with the trap flag.
- The copy of the registers in the run page (`kkm_dirty_regs`,
  `kkm_valid_regs`), `KKM_GET_REGS` and `KKM_SET_REGS` but for what a handler
  does with them, and a `GET_SAVE_INFO` whose copy to the monitor fails.
- The full TLB flush on cpus without PCID; PCIDs themselves; the CPU's format of
  the extended state and its conversion.
- The walk of the upper levels in `kkm_mmu_update_priv_area`, whose tables the
  kernel has by then, and the difference between four and five levels in the
  copies: an entry stands for its level.
- `KKM_SET_ID_MAP_ADDR`, which stores a number that nothing reads; the device
  ioctls that read constants or execute cpuid.
- The native and paravirtual wrappers over cr3, cr4 and lidt; statistics, trace
  ring, redzones, messages; a page fault or an NMI of the driver itself.
- An NMI inside the entry of an event or a system call, before its `swapgs` or on
  top of its frame: `KkmVectors` has one event at a time.
- The test program, the gdb script and the packaging: clients of the driver.
