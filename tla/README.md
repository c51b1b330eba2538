# A verification of sisop-buildroot

The repository is the course work of an operating systems class: a Linux image
built with Buildroot for a small i686 machine under QEMU, and the programs
written for it. Almost all of its 19,730 files are Buildroot (in two copies,
`src/buildroot` and `src/buildroot-vkernel`), a kernel configuration, iperf and
JavaScript libraries. The repository's own programs are about 3,000 lines of C,
shell and Python; this project models all of them that keep state, and the
parts of Buildroot that keep state between its commands: the configuration,
its files, the downloads and the steps of a package's build.

## 1. Inventory

| component | state it keeps | operations | made hard by |
|---|---|---|---|
| `T3/pmutex.c`: the Filter lock (Peterson for N threads) | a list of nodes (level, owner), a list with one victim per level, the size | `pmutex_create`, `pmutex_add`, `lock`, `unlock`, `pmutex_destroy` | busy waiting on plain loads and stores, any interleaving, x86 store buffers |
| `T3/thread_runner.c`: threads that race to fill a buffer (copies: `workst3/`, `buildroot-vkernel/modules/T3/`) | buffer, pointer, `sem_buff` or a pmutex, policy and priority of every thread, main's place in its loops | `main`, `th_gen`, `write_to_buffer`, `set_priority`, `set_priority_deadline` | real-time priorities with spinning, order of create, configure, start, drop, join |
| ... its `post_processing`, `get_th_name`, `get_th_id` | counters, the squeezed text in a growing allocation | one pass over the buffer | off-by-one, `char` arithmetic |
| `modules/sstf-iosched/sstf-iosched.c`: shortest seek time first | one list per request queue, one `prev_sector` for the module | init, exit, add, merged, dispatch | queues of several disks at once, casts of 64-bit sectors, switching schedulers |
| `modules/sstf-iosched/sector_read.c`: load for it | two semaphores, 50 threads | start together, 100 writes each | rendezvous, an open that fails |
| `modules/simple_driver`: a character device and its test program | `message`, `size_of_message`, `numberOpens`, class, device, major number | init, exit, open, read, write, release | several programs at once, unwinding of a failed init |
| `T3/deadline.c`, `setpriority/setpriority.c` | a flag and a thread that spins on it | start, sleep, clear, join | starvation |
| `T1/webmonitor` | pid file, server process, named pipes | start, stop, restart; one script per request | order of background commands, stale pid file, crashes and reboots |
| Buildroot `support/kconfig`: values (`symbol.c`, `confdata.c`, `conf.c`) | the user's values, the choice's member | set, save, read, defconfig, all-yes, all-no, random | values that depend on other values, what a minimal file may leave out |
| ... expressions (`expr.c`, `menu.c`) | the conditions of entries and prompts | rewrite, compare, join, `menu_finalize` | several mutually recursive simplifications |
| ... files (`confdata.c`, `mconf.c`, `Makefile`) | `.config`, its backup, `auto.conf` and what goes with it | save, `silentoldconfig` | killed programs, a save during a make, time stamps |
| Buildroot `support/download` | the archive, temporary files, hashes | `dl-wrapper`, `check-hash`, next place | parallel builds, killed builds, places that serve something else |
| Buildroot `package/pkg-generic.mk`, `apply-patches.sh` | stamps, source, build and target directories, list of patches | make, reinstall, rebuild, reconfigure, dirclean | interruptions, stamps and files that disagree, prerequisites of prerequisites |
| Buildroot's other recipes, front ends, boot scripts, `simple_tracer`, small programs | none that lasts | straight lines of commands or calls | - |

How they interact. `thread_runner` compiled with `PMUTEX_H2` calls `lock()` and
`unlock()` where the other build waits for and posts `sem_buff`; all versions,
and `deadline` and `setpriority`, rely on the kernel's scheduler, whose policies
they set. `sector_read` writes to a disk whose queue `sstf-iosched` orders; the
block layer calls the latter's functions under the queue's lock. The init script
runs the web server, which runs `getprocinfo.sh`. In Buildroot a front end or
`conf` works out values, from conditions that `menu_finalize()` has simplified,
and saves them; make includes what `silentoldconfig` derives from them; the
steps of a package begin with its download. The four parts of Buildroot meet
only in files.

What makes each one correct:

* Filter lock: at most one thread between `lock()` and `unlock()`; every caller
  gets in; no list is walked before it is complete or after it is freed.
* thread_runner: the buffer is filled from its first byte to the last but one,
  each byte once and by one thread, and is read only when it is full and nobody
  writes; the one token is never lost; the program ends.
* post_processing: names and ids are inverse; counts and runs are those of the
  buffer; the allocation is big enough.
* sstf: the request taken is the nearest; none is lost or served twice; the
  queue can be left.
* sector_read: nobody writes before all are ready; all the writes are made.
* simple_driver: nothing stays registered; a text is read whole, in its length,
  by the one who wrote it.
* deadline, setpriority: main gets to clear the flag.
* web monitor: one server at most, which the pid file names; stop and start do what
  they say; every request answered; no directory left.
* Buildroot: values survive saving; `.config` is never lost; an archive is whole
  and checked; patches are applied once; a step runs after what it needs.

## 2. Modules

| module | models | refines / composes |
|---|---|---|
| `Mutex` | what a mutex promises its callers | - |
| `FilterLock` | `pmutex.c`, one action per access to shared memory | implements `Mutex` |
| `FilterLockTSO` | the same code on x86 CPUs with store buffers | - |
| `BufferFill` | what thread_runner shows its user | - |
| `SharedBuffer` | `main()` and `th_gen()` with buffer, pointer and semaphore | implements `BufferFill` |
| `Scheduler` | the kernel's rules for who has a CPU (external) | - |
| `Priority` | `set_priority()` and `setpriority()` | extends `Scheduler` |
| `ThreadRunner` | the steps of `SharedBuffer` by threads that have a CPU, the terminal | composes `SharedBuffer` and `Priority` |
| `PmutexRunner` | the `PMUTEX_H2` build, with the lists of the pmutex | composes `FilterLock` and `Priority`; implements `SharedBuffer` |
| `PostProcessing` | names of threads and the pass over the full buffer | - |
| `SpinStop` | `deadline.c` and `setpriority.c` | composes with `Priority` |
| `SSTF` | every function of the elevator and the calls of the block layer | - |
| `SectorRead` | `main()` and `write_task()` | - |
| `SimpleDriver` | the driver's init, exit and file operations | - |
| `ProcInfo` | `getprocinfo.sh` and the commands it starts | - |
| `WebMonitor` | `S90webmonitor`, the life of the server, the request | composes with `ProcInfo` |
| `Kconfig` | values of boolean symbols, saving and reading | - |
| `ExprRules` | `expr.c`: what an expression is worth, the rules for two operands and for a comparison | - |
| `Expr`, `MenuFinalize` | the functions of `expr.c` that go through expressions; `menu_finalize()` of two entries | `Expr` extends `ExprRules`, `MenuFinalize` uses `Expr` |
| `ConfFiles` | `conf_write()` and `conf_write_autoconf()`, file by file | - |
| `Download` | `dl-wrapper`, `check-hash` and their caller | - |
| `PackageBuild` | the stamps of a build and `apply-patches.sh` | - |
| `FilterLockProofs`, `FilterLockTSOProofs` | theorems about the lock in both memories | - |
| `ThreadRunnerProofs`, `PmutexRunnerProofs` | ... about thread_runner in all its builds | - |
| `KernelModulesProofs` | ... about `SSTF` and `SimpleDriver` | - |
| `ProgramsProofs` | ... about `SectorRead`, `PostProcessing`, `ProcInfo`, `WebMonitor` and `SpinStop` | - |
| `DownloadProofs`, `BuildrootProofs` | ... about `Download`; about `PackageBuild`, `ConfFiles`, `Kconfig` and `ExprRules` | - |

Each `MC...` module holds the definitions its `.cfg` files need. `MCPrograms`,
`MCKernelModules`, `MCBuildroot` and `MCFilterLock` (the lock on both memories) have
several parts that share nothing and put them into one run: a first variable
chooses the part that is at work for the whole of a behaviour, and the others rest
in one fixed state. `MCRunnerVersions` does so with two versions of one module, on
the same variables. Such a run is the union of
the parts' runs, no more; its properties are the parts' own, and those that a
resting part does not satisfy by its fixed state are restricted to the
behaviours in which it works.

### 2.1 FilterLock

`level[t]` is the field of `t`'s `pnode_t`, `onhold[i]` the `data` of the
i-th node of `p->onhold`. Threads are numbered by their position in `p->pnode`,
the order in which `lock()` walks it. `pmutex_add()` adds a level for each
thread, one more than the loop `i = 1; i < p->size` uses; the spare one is left
out. The actions of a thread, in the order of the code: `Lock` (find the own
node, start the loop), `SetLevel` (line 32), `SetVictim` (33), `CheckVictim` (35),
`Scan` (one turn of 38-48), `LeaveWait` (the scan ended with `flg` 0), `Unlock`.
When the scan ends with `flg` 0 the code evaluates the `while` condition once
more: it loads the victim, but whatever it finds the loop ends, so the load has
no action. `malloc()` leaves `data` unset: `Nobody`, which no thread is.
The module is about threads whose lists are complete, in the order in which
`pmutex_add()` puts nodes in front; that `thread_runner` gets there is what
`PmutexRunner` shows (`ListsReady`).

### 2.2 FilterLockTSO

The Makefile compiles with gcc and without optimization, for x86, so the stores
and loads of the source are those of the machine, and none is locked or fenced.
A store goes to the end of `sb[cpu[t]]`; a load takes the youngest store of its
own CPU's buffer to the word, else memory; `Drain` moves the oldest store to
memory when it likes. Threads do not move between CPUs in the model: the kernel
may move them, which empties both buffers, so a move brings no reordering that
two fixed CPUs do not have. On one CPU a load finds every store of the program in
program order, so what is checked and proved there is what `pmutex.c` promises,
mutual exclusion and progress, and that it does not depend on what is pending;
with two CPUs it does. `SBMax` bounds a buffer (real ones have some
fifty entries): two stores are what the code issues before its first load, and
what the violation needs.

### 2.3 SharedBuffer, Scheduler, Priority and ThreadRunner

`SharedBuffer` has the places of `main()` as `mpc`: `boost` (364), `print` (367),
`create` (368), `configure` (369), `start` (377), `drop` (386), `join` (391),
`report` (395-399); and of a worker as `wpc[w]`: `wait`, `check` (244), `write`
(218), `advance` (219), `post` (256), `lastPost` (246), `exit` (250). The two
statements of `write_to_buffer()` are two actions. A failed `sem_trywait()`
changes nothing and is no action.

`Scheduler` is external. It has one run order, `queue`, of the runnable threads,
and `attr[t]`, policy and priority; `Runs(t)` when fewer than `CPUCount` threads
go before it. Higher real-time priority goes first; among equals position
decides; `Tick` moves a SCHED_RR or SCHED_OTHER thread behind its equals, and
never a SCHED_FIFO one. SCHED_OTHER is priority 0 with ticks, which stands for
the fair scheduler. SCHED_BATCH and SCHED_IDLE behave as SCHED_OTHER here and
are left out. A thread that changes priority joins its new equals at either end.
The throttling of real-time threads (`sched_rt_runtime_us`), which leaves 5% of
the time to others, is not modelled: it would let a starved thread crawl on and
hide the dependence the code's own comment speaks of.

`ThreadRunner` conjoins each step with having a CPU and with its effect on the
scheduler. `Spins` chooses `sem_trywait()` in a loop or `sem_wait()`; `Boosts`
whether main raises itself to SCHED_FIFO 99 while it creates workers. `T3` and
`workst3` are `Spins`, `Boosts`; `modules/T3` is neither. `printf()` in the loop
can put main to sleep (`Terminal`).
`Priority` has `SetPriority`, which follows `set_priority()`: a priority out of
range changes nothing; one above what the kernel grants the process (`RTLimit`, 99
for root) is refused and changes nothing; SCHED_DEADLINE calls
`sched_setattr(id + 1)`, which is not the thread, so it changes nothing of the
thread's either. A new thread inherits main's policy and priority, so in the
versions with the boost such a worker stays SCHED_FIFO 99 (Known limits).

### 2.4 PmutexRunner

The build with `-DPMUTEX_H2`. `main()` calls `pmutex_add()` in the loop that
creates the threads, while those already created spin on `start_ths`; then the
workers' `lock()` and `unlock()` are the actions of `FilterLock`, one step at a
time and only on a CPU. Because `pmutex_add()` adds at the head, the thread
created first is thread N of `FilterLock` (`Nth`). `heap` has the cells `malloc()`
has given; the program never calls `pmutex_destroy()`, the model lets main call
it, or not, in the one place where it is safe, after the joins. `SB` maps the
state to `SharedBuffer`'s: the token is there when nobody is between `lock()` and
`unlock()`, the workers are renamed to the order of their creation, the lists and
the levels are internal.

### 2.5 PostProcessing

`get_th_name` and `get_th_id` with `char` wrapped at 8 bits, signed, as on x86;
one `Step` per byte (squeeze, count, advance), `Finish` for the printing. `seq`
is a function whose domain is the allocation, so a store out of it, which in TLA+
changes nothing, shows as a wrong `j` or a lost character.

### 2.6 SpinStop

One program or the other; `throttles` is whether the kernel suspends real-time
threads that use all of their share (`sched_rt_runtime_us`; the default does).
`Reserve` is the `sched_setattr()` of deadline.c, for itself and so in effect
here; `Suspend` and `Resume` are the end of a runtime and the next period.

### 2.7 SSTF

One list per queue. `InitQueue`, `AddRequest`, `MergedRequests`, `ExitQueue` are
the functions; `DispatchNone` is the call of `sstf_dispatch()` that returns 0;
`DispatchFirst`, `ScanRequest` (one turn of `list_for_each_entry`) and `Take` are
the one that returns 1. The block layer holds the queue's lock around each, so
for one queue they exclude each other (`pc[q] = "idle"`), and for two they
interleave; `prev_sector` is read without a lock, once for the scan or again for
each request, as the compiler likes (`seen`). `StartLeaving` is the block layer's
switch to another scheduler: it stops adding, dispatches until 0 is returned,
and calls exit. `Long` is the cast to a `long` of `LongMax`.
`served`, `merged`, `arrived`, `last` and `writer` are history variables.

### 2.8 SectorRead

Main's three loops and the thread function, one action per semaphore call, per
write and per open; `MayFail` lets an open fail.

### 2.9 SimpleDriver

The driver takes no lock and the kernel does not exclude its operations, so
`sprintf()`, `strlen()` and `copy_to_user()` are beginnings and ends
(`WriteBegin`, `PrintEnd`, `Measure`; `ReadBegin`, `ReadEnd`, `ReadFault`). The
value of `strlen()` is stored by a step of its own (`StoreSize`): a whole write of
another client fits in between. Two `sprintf()` that overlap leave `Mixed`, of
which nothing is known; a `strlen()` that overlaps one may return any length. `message` is
whose text it is and how long; `Suffix` is the "(%zu letters)" that `dev_write()`
adds. `numberOpens++` is a load and a store. Each registration of `simple_init()`
may fail; `simple_exit()` gives the class up twice (`ClassUnregister`,
`ClassDestroy`), of which the second is undefined: rmmod may come through or stop
there for good. Files that are open when the module goes are `stranded`, their
next call kills the process. `mine`, `met` and `opens` are history variables.
That a whole text goes with its own length (`SizeMatches`) is false
(`driver_sizes`); what is true is that the next write that meets no other repairs
it (`SizeUnlessMet`), and that a client nobody came between reads its own text
(`OwnReply`).

### 2.10 ProcInfo and WebMonitor

`ProcInfo`: the script forks three awks and a paste; a named pipe opens when both
ends do; `f3` is never made with `mkfifo`, so the third awk's redirection creates
a plain file, which paste may find missing or empty, and which rm may have
missed. `WebMonitor` has `S90webmonitor` as `Called`, `Test`, `Launch`, `WritePid`
(the shell empties the file, then echo writes), `Stop`: `kill` gets the pid on its
standard input and not as an operand, so it fails, and the `if` around it does not
remove the file. So a stop does not stop (`web_stop`); what the script
keeps, and a repaired one would too, is `OneServer`: of callers that do not
overlap at most one server is left running, and the file names it. `Reboot` may come
at any time and empties `/var/run`. The server is Flask's, with one thread and one port.

### 2.11 Kconfig

A tree is a record: which symbols have prompts, what each depends on, defaults
with conditions, selects, one choice. `Parse` is `conf_parse()`, which reads the
Kconfig files; `menus` is the tree as `menu_finalize()` leaves it, or `NoMenus`
before. `sym_check_deps()` ends the program there if the dependencies are
recursive. What it lets pass is stated by `WellFormed`: symbols are numbers, and
can be numbered such that each refers only to those `Before` it; the members of
a choice are checked together, so what one of them refers to comes before all.
`Calc` is `sym_calc_value()` of all symbols, a recursive function because the value
of one calls for the values of those it refers to: the visible ones take the
user's value if there is one, choices their member, others the first default
that applies, and selects raise the result. `ConfWrite`, `ConfWriteDefconfig`,
`ReadSimple` and `ConfRead` are the functions of `confdata.c` on files that are
functions from symbols to values. The other actions are what a user does:
`SetValue`, `Reload`, `ReloadDefconfig`, `AllSame`, `RandConfig`. A boolean world is
Buildroot's own: no `.in` file of it declares a tristate.

### 2.12 ExprRules, Expr and MenuFinalize

`expr.c` as operators on trees. `ExprRules` has what looks at no more than two
operands: the value of a symbol or comparison, `OrRule` and `AndRule`, which are the
tables of pairs that `expr_join_or()` and `expr_join_and()` turn into one, `WithoutYN`
and `Compared`; it declares no recursive operator, so there are proofs about it.
`Expr` has what goes down a tree: `TakeCommon` is `expr_extract_eq()`, `Dups1` and
`Dups2` the two passes of `expr_eliminate_dups()`, which repeats until nothing changes. The C code works on pointers into one tree; where two of
them point into the same tree the operators use paths. `MenuFinalize` runs the
loop of `menu_finalize()` over two entries, with a step for each entry's `dep` and
prompt, and the test of whether the second becomes a submenu of the first.

### 2.13 ConfFiles

A file is a version and the time of its last write; `rename()` keeps the time.
`Open`, `Close`, `Backup` and `Replace` are `conf_write()`; `SilentOldConfig` is the
rule of the Makefile that runs when `auto.conf` is older than `.config`;
`OpenAuto`, `FillAuto` and `RenameAuto` are `conf_write_autoconf()`. `stage[p]` is where
program `p` is. `menuconfig` and `make` interleave, and each may be killed anywhere
(`KillProgram`). `overlap` is a history variable.

### 2.14 Download

One action per command of `dl-wrapper`. `DOWNLOAD_INNER` calls it for one place
after the other until it succeeds. A backend returns a good or a bad file, or
fails; `check-hash` says 0, 2 (does not match) or 3 (no hash for it). Two
temporary files have a life of their own: the one in the build's directory and
the one next to the archive, which `mv` renames. `Kill` stops a build anywhere.
`hashes` says whether the `.hash` file has the archive, and counts one it lacks
but need not have (BR_NO_CHECK_HASH_FOR, types none) as no file. The bzr, cvs, hg and
svn backends are called without `-H` and so for one of the places, `bare`, nothing is
checked; `WholeAndChecked` and `KeptIfNotBad` are about archives that are (`Checks`).

### 2.15 PackageBuild

`stamps` is the set of stamp files and `old` those that make finds older than a
prerequisite. `MadeFrom` are the ordinary prerequisites and `OrderOnly` those
behind the `|`; `Needs` has the prerequisites of prerequisites too, as what no set
of stamps closed under them can be without. make runs a step (`Begin`) when the stamp is missing or old and all
it needs is up to date. What a step writes is torn from `Begin` to `End`, so an
interruption leaves it so. `RemoveStamp` is one `rm -f` of the targets that force
steps, which remove the stamps of `Removed` in the order of `Rank`; `RecordPatch` and `ApplyPatch` the two halves of `apply_patch()`.
`rsync -au` is taken to bring a version of an overridden package's sources over
whole, which it does for a user who edits these only: it would keep a newer file
of the build directory, and it leaves what was deleted from the sources.

## 3. Runs

Each takes less than five minutes on two cores.

| run | bounds | shows |
|---|---|---|
| `filter_lock` | 3 threads; memory in program order, or 1 CPU with 2 pending stores | starvation freedom; in program order refinement of `Mutex`, on the x86 CPU mutual exclusion |
| `tso_two_cpus` | 2 threads, 2 CPUs | **mutual exclusion is violated** |
| `runners` | spinning: 3 workers, 2 bytes, 1 CPU; every list of OTHER, FIFO 1, FIFO 2, RR 2 without FIFO and RR at one priority. sem_wait: 2 workers, 2 bytes, 2 CPUs; every request, invalid, refused and DEADLINE too | refinement of `BufferFill`; the program ends |
| `runner_mixed` | FIFO 1 and RR 1, 1 CPU | **does not end** |
| `pmutex_runner` | 3 workers, 1 byte, 1 CPU; every order of OTHER, FIFO 1, RR 2 with a FIFO among them | mutual exclusion under every scheduling, no list is walked unready, no cell leaks, behaves as the build with the semaphore, ends |
| `programs` | sector_read: 3 threads, 2 writes, opens may fail; SpinStop: 1 CPU; post_processing: all 2187 buffers of 7 bytes by 3 threads, and of 3 bytes by ids 0, 25, 26, 55 of 56; web monitor: 2 callers, 2 processes per boot | rendezvous and completion; main gets to stop the spinner; counts, runs, allocation and names; one server at most, whole columns, answers |
| `kernel_modules` | simple_driver: 2 clients, texts of 3, 40 and 300 for 256 bytes, 3 opens; sstf: 2 queues, sectors 0, 1, 2 and one past `LongMax`, 3 requests | nothing left, own replies, sizes right again after a write that met no other; nothing lost or doubled, an undisturbed queue takes the nearest, a switch completes |
| `buildroot` | 2 builds x 2 places; Kconfig trees of 3 symbols and a choice of 2; 3 saved configurations and 5 writes; a library and an overridden package with 2 patches and 2 versions; some 10,000 menus of two entries | see below |
| `sstf_shared_prev` | 2 queues, 3 requests | **the nearest is not taken** |
| `driver_sizes` | 2 clients, texts of 3 and 40, 2 opens | **one text is left in the length of another** |
| `web_stop` | 1 caller, 1 process per boot | **a stop leaves the server running** |
| `menu_tristate` | the menus of `buildroot` | **the meaning is not kept** |

The `buildroot` run shows: archives are whole and checked, nothing is left over
and a good archive stays (`WholeAndChecked`, `NothingLeftOver`, `KeptIfNotBad`);
values come back from a saved file and from a minimal one, and a value that is
set takes effect (`SaveKeeps`, `DefconfigKeeps`, `SetTakesEffect`); `.config` is
never lost or partial, and an up-to-date `auto.conf` tells the truth
(`NeverLost`, `AutoConfLast`); patches are applied once, dependencies come first,
a make that ends leaves everything installed as built, and nothing is rebuilt
unasked (`PatchedOnce`, `DepsFirst`, `EndsInstalled`, `NeverRebuilt`); the
simplifications keep the meaning of conditions without m, and submenus are where
they can be (`PlainMeaningKept`, `BelowNeeds`).

Why the bounds are enough. Three threads give the Filter lock two levels, so
a thread waits at a level another one has passed and one it shares; the proof
covers every N. Three workers are two that spin while one has the token; one
CPU is where a spinner can keep the token's holder from running; with two CPUs
main and two workers still are one thread too many. Priority 3 stands for 99,
with 1 and 2 below it. Seven bytes by three threads can grow the allocation of
three bytes twice. Three requests in one queue are a first dispatch and then a
choice of two, with ties; adds and merges come between. `LongMax` is scaled:
what matters is whether a sector is above it. Two clients of the driver are the
two calls that can overlap; the lengths differ in their number of digits and one
does not fit. Two callers of the init script are a start that meets another, and
two processes what a second launch would make; after two overlapping starts the
model stops (`Bounded`), since `OneServer` says nothing from there. Two builds are
one that checks while the other replaces, two places a first that fails and a
second. A Kconfig tree of three symbols has a
chain of dependencies, a select and a default that meet in one symbol, and a
choice below it. Three versions of a configuration are the old one, the new one
and one that make completes. A library, a package that needs it and a patch
dependency the other way are all kinds of prerequisites; two patches are one
before and one after an interruption. Section 4 has the same properties of these
parts without the bounds.

### Fairness

* `FilterLock`: weak fairness of a thread inside `lock()` or the critical
  section: the kernel keeps scheduling it. None of `Lock`: a thread need not
  come back.
* `FilterLockTSO`: buffers drain (weak); threads run (strong), since a store waits
  for room in the buffer, which others on the same CPU use too.
* `ThreadRunner`, `PmutexRunner`: a thread that has a CPU again and again gets its
  next step done (strong, because slices end between its steps); slices end; a
  terminal drains. Nothing is assumed of a thread that has no CPU: who has one
  is what `Scheduler` decides.
* `SpinStop`: the same of main and the thread; slices and the sleep end; a thread
  that runs on is suspended at last, and resumed in the next period.
* `SSTF`: a dispatch that drains the queue for a switch goes on, and so does the
  exit after it. None for adds, merges and other dispatches.
* `SectorRead`: weak fairness of every thread.
* `ProcInfo`, `WebMonitor`: weak fairness of the script and its commands, each a
  process of its own, and of the server's one thread. None of the init script,
  of requests, crashes and reboots.
* The parts of Buildroot have safety properties only: whoever runs a make may
  stop it for good.

`CHECK_DEADLOCK FALSE` stands where programs end (thread_runner and the programs
of `programs`) and where a module may be stuck for good (`kernel_modules`). The
`buildroot` run checks deadlock: the parts that end may do nothing more, the
configuration and the package build must always be able to go on.

### What the violated runs say

1. `tso_two_cpus`: `pmutex.c` needs a fence between the store of the level and
   victim and the scan. The Vagrant machine has four CPUs and the image's kernel
   is an SMP one; the QEMU command line of the board runs one CPU by default, on
   which the lock is right (`filter_lock`).
2. `runner_mixed`: the boost of main, by which the comment in
   `thread_runner.c:360-363` wants to exclude deadlock, does not: a SCHED_FIFO
   worker spins for ever for a token its SCHED_RR equal holds. For the same reason
   `runners` asks for priorities below 99: a worker of main's own priority
   takes the CPU when main sleeps in `printf()`, and spins for the token main has
   not posted. The version with `sem_wait()` has no such lists (`runners`).
3. `sstf_shared_prev`: `prev_sector` should belong to the queue. It should also be
   as wide as a sector: `NearestUndisturbed` has to leave out sectors past
   `LongMax`, whose position the cast makes negative.
4. `menu_tristate`: `expr_eliminate_dups2()` turns "(FOO || BAR) && (!FOO && !BAR)"
   into n, as its comment says, but for tristates at m the value is m. Buildroot
   has no tristates and is not concerned; users of the same code with modules are.
   `PlainMeaningKept` states what remains true.
5. `driver_sizes`: one writer's `strlen()` returns, another's whole write runs, and
   the first one's length is stored last. The next reader gets the second text cut
   off, or bytes behind it. `dev_write()` needs a lock around line 158 and 159, and
   `dev_read()` the same one.
6. `web_stop`: `kill -9` needs the pid as an operand. Until then restart restarts
   nothing, whatever became of the server.

### Known limits

What the code does beyond what the properties ask, as met while modelling:

* thread_runner: `set_priority_deadline()` calls `sched_setattr()` for process id
  + 1 (`thread_runner.c:135`), so a SCHED_DEADLINE request never takes effect.
  With the boost that worker, and one whose priority is invalid or refused, keeps the
  SCHED_FIFO 99 it inherited: on one CPU, when main sleeps in a `printf()` of its loop,
  it spins for a token main has not posted, and main never runs again (TLC finds that
  if SCHED_DEADLINE is among the requests of `runners` for the spinning version).
  Requests at 99 together with main's boost are outside `runners` for the same reason.
  `NamesLeadBack` holds for ids up to 55: the 57th thread's name is 128, which a
  signed `char` turns into -128; `get_th_id()` then returns -193, and
  `post_processing()` would count there.
* sector_read: a thread whose open fails never posts s1 (`sector_read.c:41`); main
  waits for ever and the ready threads never begin. `AllWritten` asks for all
  opens to succeed.
* simple_driver: besides the race of `driver_sizes`, a refused write leaves the size
  of an earlier text (`simple_driver.c:164`); opens that overlap lose counts (`:117`); a text that
  fits before the suffix is added and not after it overruns `message` (excluded
  by `SimpleDriverAssumption`). Addresses reused after a reload are not modelled.
* web monitor: stop stops nothing (`web_stop`) and leaves the pid file, so after a
  crash start says "Web Monitor has already started!" (`S90webmonitor:11`) and starts
  nothing until the next boot; two overlapping starts launch two servers, of which
  one dies and may leave its pid in the file. A failing `mktemp` is not modelled.
* dl-wrapper: the `rm -f` of line 63 is apart from the check before it, so with a
  bad archive two builds can meet such that one removes the good archive the other
  has just put there, although lines 155-156 want concurrent downloads not to
  conflict; `KeptIfNotBad` therefore starts from an archive that is not bad. When
  `mktemp` or `chmod` fails at line 103, `set -e` ends the script and its directory
  stays, and after `chmod` the file next to the archive too, although line 16
  promises their removal. What bzr, cvs, hg and svn bring is not checked.
* PackageBuild: a kill within the `rm -Rf` of dirclean may leave stamps without
  sources (dirclean is one step here); a patch is noted before it is applied, so
  that after a rejected one only dirclean helps; foo-reinstall of an overridden
  package copies the sources anew and does not build them; rebuilding a package
  does not rebuild those that need it. Users edit between makes only.
* ConfFiles: `fprintf()` and `fclose()` are not looked at, so a full disk goes
  unnoticed (left out); between the two renames there is no `.config`; make reads
  `.config` itself before silentoldconfig may rewrite it. `KCONFIG_OVERWRITECONFIG`
  and `KCONFIG_NOSILENTUPDATE` are left out.
* Expr: the comments at `expr.c:315` and `:484` say other than the code, which is
  right in both cases.

## 4. Proofs

All theorems are for every value of the constants. They assume of the constants
what the modules that declare them do: `NAssumption`, `TSOAssumption`,
`SharedBufferAssumption`, `SchedulerAssumption`, `PriorityAssumption`,
`LimitAssumption`, `ThreadRunnerAssumption`, `PmutexRunnerAssumption`, `SSTFAssumption`,
`SimpleDriverAssumption`, `SectorReadAssumption`, `WebMonitorAssumption`,
`PlacesAssumption`, `PackageBuildAssumption`, `ConfFilesAssumption`,
`KconfigAssumption`; TLC evaluates them in the runs. Most say that a number is
one. Two say more: `SimpleDriverAssumption` leaves out the texts that overrun
`message` once the suffix is added (Known limits), and `KconfigAssumption` has the
trees that `sym_check_deps()` lets pass. Some theorems have a hypothesis of their
own: `Filled` (two about `PostProcessing`), `OneCPU` (three about `FilterLockTSO`),
`Acyclic` (`MakesGoOn`: finitely many packages and no circular dependency, which make
drops), `Named` (two about `ExprRules`: no symbol is called y, m or n) and `Sizes`
(`SpinsGoOn`: what `SchedulerAssumption` and `PriorityAssumption` say).

A liveness property is out of the provers' reach, but most of it is not a matter
of fairness: that a state in which something is still due has a step that
brings it nearer, and that such steps run out. Both are safety properties, and
for most of the liveness properties they are proved below. What is left to TLC is
that fairness brings the steps about.

* **Filter lock** (`FilterLockProofs`): `Spec => []IInv` (`Inductive`), and from
  it `MutualExclusion` (`Exclusion`), the bound of N - k threads past level k
  (`Filters`) and `Spec => ImplementsMutex` (`Implements`). The invariant says
  more than the bound because the bound alone is not inductive: a thread leaves
  level k either because another one is the victim (`VictimPosted`: then that
  one is posted at k and stays), or because its scan saw nobody
  (`ScannedClear`: every thread scanned so far is not posted at its level while
  it is still the victim; so at the end of the scan it is alone, `VictimAlone`).
  With at most N - k + 1 threads past k - 1, one is left behind at k in the first
  case and only one has come in the second. `LevelShown` ties the field `level`,
  which the scan reads, to the thread's place; between the store of a new
  level and of the victim the field is ahead, which only makes others wait.
  `FilterBound` at k = N - 1 is mutual exclusion. `DeadlockFree`: of the threads inside
  the lock, look at those on the highest level (`TopOne`): one is not the victim, or is
  alone there, so it is not held back. `WaitEnds`: a thread that is not held back
  is through its scans in `StepsLeft` steps of its own, unless another one comes up to
  its level, which makes itself the victim there.
* **The lock on one x86 CPU** (`FilterLockTSOProofs`): if all threads are on one CPU
  (`OneCPU`), at most one is between `lock()` and `unlock()` (`OneCPUExclusion`, for
  `MutualExclusion`) and one inside the lock reads what lets it go on, whatever is
  pending (`OneCPUDeadlockFree`), for any number of threads and any length of the
  store buffer. The bridge is the lemma `OneCPUSees`, which is about the CPU and not
  about `pmutex.c`: each word of `FilterLock` is mapped to what a load on that CPU
  would return; a store appends to the buffer and so changes that for its own word
  only (`Youngest`), a drain changes what memory holds and not what a load returns.
  The content is `FilterLockProofs`' invariant under this mapping. `tso_two_cpus` shows
  that the hypothesis is needed.
* **Shared buffer** (`ThreadRunnerProofs`): `Spec => []IInv` (`Inductive`): the
  token (`OneToken`), the contents of the buffer up to the pointer (`FilledToPtr`),
  what a worker past the end check may rely on (`EndChecked`) and what main knows
  of the threads it joined (`Joined`). From it `Implements`:
  `Spec => FillsBuffer`, where `Advance` is the abstract write and `Report`
  the abstract report; the token makes the byte between `Write` and `Advance`
  the worker's own. `Unstuck`: until the report is through main or a worker has a step to
  take, since the token is there, or with a worker that holds it, or main has yet to
  post it. `Winds`: every step takes one from what its thread has left (`MainLeft`,
  `WorkerLeft`: a worker goes round the loop once for a byte) and adds to nobody's.
* **thread_runner** (`ThreadRunnerProofs`): every scheduled step is a step of
  `SharedBuffer` or leaves its variables alone (`StepMaps`), so `TSpec => Spec`
  (`Scheduled`), and with it `FillsBuffer` and `OneToken` hold under any policies,
  priorities and number of CPUs, in all versions (`ScheduledFills`,
  `ScheduledToken`), and the steps run out (`ScheduledWinds`). `SleepInv` says of the
  scheduler's queue that each runnable thread is in it once (`QueueOK`) and who is
  asleep for what (`AwakeInv`); with it no wakeup is lost (`NoLostWakeup`: if the semaphore
  is not 0 and a worker sleeps for it, one that is awake is about to take it) and
  somebody awake has a step to take (`GoesOn`). With `sem_wait()` more is true:
  every thread with a CPU has a step to take or goes to sleep (`CPUsUsed`). With
  `sem_trywait()` it may have neither, which is what `runner_mixed` shows.
* **PMUTEX_H2 build** (`PmutexRunnerProofs`): every step is a step of `FilterLock`
  or leaves its variables alone (`Locks`: `PSpec => FilterLock's Spec`), so its
  invariant and `RunnerExclusion` hold under every scheduling. What main does is
  in `RInv`: types, who has begun (`Begun`), who is between `lock()` and `unlock()`
  where th_gen() thinks so (`Holding`), whom main has joined (`JoinedInv`); what the
  lists are while they are built, used and freed is in `Built`. From these
  `Ready` (`ListsReady`), `Leaks` (`NoLeak`), and `PmutexImplements`: the whole
  build implements the build with the semaphore, hence, by
  `ThreadRunnerProofs!Implements`, fills the buffer. `GoesOn` says that somebody awake
  has a step to take other than another turn in `lock()`, from `HighestGoesOn` of
  `FilterLockProofs`, since a thread inside the lock is awake; `RunnerWinds` that the steps
  outside the lock run out.
* **SSTF** (`KernelModulesProofs`): `Spec => []IInv` (`Inductive`). Two parts say
  where a request is: every one that arrived and was not merged is somewhere
  (`Placed`) and in one place only (`OnePlace`), as positions, because `RemoveAt`
  shifts those behind it; `Quiet` says that a queue that is off is empty and that a
  chosen request is in the list. `Conserves` (`Conserved`) follows. `Sound` is about
  the queue that was the last to write `prev_sector`: the variable is the sector it
  dispatched last, and in the middle of a scan the one chosen is the best of those
  already seen (`Best`). With `Long(x) = x` up to `LongMax` that gives `Nearest`
  (`NearestUndisturbed`), for any number of queues and requests. `NeverHeld`: the
  dispatch of a queue that is to be left can go on, and one that is drained passes
  the `BUG_ON()` of `sstf_exit_queue()`; `LeavingDrains`: each of its own steps shortens its
  list or what is left of the call (`CallLeft`), and nobody else's lengthens them.
* **simple_driver** (`KernelModulesProofs`): `DSpec => []DriverInv`
  (`DriverInductive`), for any number of clients and of opens. `Registered` ties each
  registration to the phase of init or exit. `Alone` says what a client that
  nobody disturbed since its write knows of `message` at each place of its calls,
  between `strlen()` and the store of its value too. `Single` does the same for a
  write that met no other, until it ends: reads may overlap it, which set the size
  to 0 at most. From it `LeavesNothing` (`NothingLeft`), `ReadsOwn` (`OwnReply`) and
  `SizesHeal` (`SizeUnlessMet`).
* **sector_read** (`ProgramsProofs`): `Spec => []IInv` (`Inductive`): the
  threads that are ready are the value of s1 and the waits main has come through,
  and the threads that have begun and the value of s0 are the posts main has made
  (`Counted`). A thread that has begun needs a post, main posts only after procs
  waits, and procs ready threads are all of them: `AllTogether` (`Together`). It stops only
  when all is written or an open has failed (`WritersGoOn`), and every step takes one
  from what main or a thread has left (`WritersWind`).
* **post_processing** (`ProgramsProofs`): for a buffer of any size, filled by up
  to 56 threads (`Filled`), `PostInv`: what is squeezed and counted is that of the
  bytes read so far, the last character kept is the last byte read (`LastRead`), and
  the allocation holds what is written. With 57 threads `NamesLeadBack` is
  false, so the bound is not one of the proof. `SummarizesAll` (`Summarized`) and
  `NamesKept` (`NamesLeadBack`).
* **Web monitor** (`ProgramsProofs`): `WebSpec => [](InitInv /\ ScriptInv)`
  (`WebInductive`). A column comes through a named pipe only after both ends are
  open (`Piped`), paste ends after it has both (`Columns`), and what paste has
  found of the third awk's, rm finds too (`Found`): `ScriptEnds` (`ScriptResult`). As long as
  no two starts overlapped one caller at most is past the test for the pid file
  and what it has launched is the process that file is going to name (`OneStart`):
  what runs is that process or nothing, so `ServedOnce` (`OneServer`), for any number
  of callers and process ids. Until the
  script has ended one of its commands can go on (`ScriptGoesOn`): rm runs after
  paste only, so a pipe never loses an end that somebody waits for. Its steps run
  out (`ScriptWinds`).
* **deadline and setpriority** (`ProgramsProofs`): `SpinSpec => []SpinGoesOn`
  (`SpinsGoOn`), from `SpinInv`, on any number of CPUs: until main is done there is a
  step of main, or the end of its sleep, or a step of the thread other than a turn of
  its loop, or the kernel may suspend the thread or let it go on. For setpriority that is so if
  the kernel throttles real-time threads, as it does by default; nothing else gets
  main off the CPU for good.
* **Download** (`DownloadProofs`): `Spec => []IInv` (`Inductive`): what a call has
  fetched stays in files of its own until `check-hash` has let it through
  (`Fetched`), what removes an archive has found it bad and so it was bad from the
  start (`Checked`, `Settled`), a call past its end has nothing left (`Tidy`). From it
  `Whole` (`WholeAndChecked`), `LeavesNothing` (`NothingLeftOver`) and `Keeps`
  (`KeptIfNotBad`), for any number of builds and places.
* **Steps of a package's build** (`BuildrootProofs`): `BSpec => []IInv`
  (`Inductive`), for any packages, dependencies, patches and versions. A stamp being
  there says nothing of itself about what it was made from, since `reinstall` and its
  like remove stamps; the invariant says why it does all the same. The stamps of one
  package up to the build are a chain of which the ones there are a beginning
  (`Layered`), as stamps are removed from its end on (`Clean`, for the middle of a
  removal); so only `target_installed` ever becomes older than what it is made from
  (`Settled`), and a step that begins has all it needs up to date (`Ready`). Hence
  what a stamp stands for is whole (`WholeTree`, `WholeObj`, `WholeInst`), also after
  an interruption, which leaves torn files only where there is no stamp; patches
  are noted and applied alternately (`Applied`); foo-rebuild has taken the user's
  sources (`Newest`). From it `PatchesOnce` (`PatchedOnce`), `DependenciesFirst`
  (`DepsFirst`), `EndsWell` (`EndsInstalled`) and `BuildsOnce` (`NeverRebuilt`).
  A make that was called can always go on (`MakesGoOn`): of the steps that are due, one
  that needs no other is there as dependencies are not circular (`Acyclic`). What it
  has brought up to date stays so until its end, and no step runs twice
  (`EachStepOnce`).
* **Files of the configuration** (`BuildrootProofs`): `ConfSpec => []ConfInv`
  (`ConfInductive`), for any number of saves and writes. Only a file written to its
  end is renamed to `.config` (`InFull`), which gives `ConfigKept` (`NeverLost`, an action
  property). If no two programs met, one is at work at a time (`Apart`), what it is
  about to rename is younger than `auto.conf` (`Younger`), and make goes on taking
  `auto.conf` for out of date until it is renamed, last (`Derives`): `DerivedLast`
  (`AutoConfLast`).
* **Values of the configuration** (`BuildrootProofs`): here the states are easy
  (`KTypeOK`) and the work is in the operators. `Calc` is a recursive function, of
  which the definition alone says nothing unless it is shown that some function
  fits. `WorthSome` shows it, and `WorthOnce` that only one does: take the least
  symbol two of them differ at; they agree on all it refers to, so they agree on it
  (`CalcAlike`). `FileKeeps` then says when a file is enough: a visible symbol it leaves
  out has the value it gets by default or select, and a chosen member it leaves
  out is the choice's default. Reading such a file makes the old values fit again,
  and they are the only ones that do. `conf_write()` and `conf_write_defconfig()`
  meet that condition (`WriteKeeps`, `WriteDefconfigKeeps`), hence `SavesAll`
  (`SaveKeeps`) and `SavesEnough` (`DefconfigKeeps`). `SetsIt` (`SetTakesEffect`) uses that
  all before the symbol that is set keeps its value. `SavingSettles`: savedefconfig after
  defconfig writes the file that was read, and saving once more changes nothing.
* **Rules for expressions** (`BuildrootProofs`): for symbols and values of every kind,
  m too, the expression that `expr_join_or()` or `expr_join_and()` puts in the place of two
  is worth what their operation is (`JoinsKeepTheValue`), and so are a comparison of
  a boolean after `expr_transform()` (`ComparisonsKeepTheValue`) and an operation with
  a constant after `expr_eliminate_yn()` (`ConstantsGo`). So what `menu_tristate` finds
  is not in these tables but in `expr_eliminate_dups2()`.

An argument by a least counterexample (`Least`, from `WFMin` of the library) takes
the place of induction over data in the last part and in `FilterLockTSOProofs`, as
the library's induction theorems take an operator as a parameter.

Model-checked only:

* the liveness properties themselves, `StarvationFree`, `Termination`, `AllWritten`,
  `Ends`, `Answered`, `LeavesEventually` and their like: the provers at hand do not do
  fairness or ENABLED. What is proved of them is said above. Freedom from
  starvation is more than freedom from deadlock: that others do not overtake a thread
  without end is TLC's for three threads;
* `PlainMeaningKept` and `BelowNeeds`, because `Expr` and `MenuFinalize` use RECURSIVE
  operators on trees of expressions, which the prover does not take: that a
  simplification keeps the meaning of every tree needs induction over trees. The
  rules they apply at each node are proved.

## 5. Not modelled

The definitions stand for some 3,400 lines of the repository. Most of the other
implementation lines are Buildroot's: user interfaces, generators and recipes, and
their second copy.

* Calls of `lock()` by a thread that was not added, which `pmutex.h` leaves
  undefined.
* The parsing of the command line of thread_runner: its result is `Requests`.
* Random sectors of sector_read; the text of all printing.
* The other routes of the web server, each a script that prints a line of `/proc`.
* Kconfig: tristate, string and number symbols as values, submenus and optional
  choices, the parser, `E_LIST` and `E_RANGE`, `select` in `menu_finalize()`, comparisons
  other than with y, m and n. The front ends (`mconf`, `nconf`, `gconf`, `qconf`) are
  user interfaces over the functions that are modelled.
* Packages: host packages, hooks, virtual packages, legal-info; the recipes of
  two thousand packages, the image generators, the compiler wrapper and the
  statistics in Python are sequences of commands whose effect is in the programs
  they call.
* `simple_tracer`, `disk-test`, `hello`, `memorymanagement`, `stressing`, `apps` and
  the boot scripts: sequences of calls by a single process with no state to relate.
* `buildroot-vkernel` holds a second copy of Buildroot, whose `support/` and
  `package/` are the same; the modules are mapped to the first.
* The kernel, iperf and the JavaScript libraries: not this repository's.

## 6. Plan

Done, in this order: `Mutex`, `FilterLock` and its proofs; `FilterLockTSO`;
`BufferFill`, `SharedBuffer` and proofs; `Scheduler`, `ThreadRunner` and proofs;
`PostProcessing`, `SSTF`, `SectorRead` and proofs; `PmutexRunner` and proofs;
`SimpleDriver`; `SpinStop`; `ProcInfo`, `WebMonitor`; `Kconfig`, `ConfFiles`, `Expr`,
`MenuFinalize`; `Download` and proofs; `PackageBuild`; proofs of `SSTF`; of
`FilterLockTSO` on one CPU; of `SimpleDriver`, `PostProcessing`, `ProcInfo` and
`WebMonitor`; of `PackageBuild`, `ConfFiles` and `Kconfig`; the parts of liveness that
are safety, for all but `Download` and `ConfFiles`, which promise none; the rules of
`ExprRules`. Every safety property of the runs has a theorem, but for the two of
`MenuFinalize`.

Left, if the work goes on:

* theorems: that `FilterLockTSO` with a fence before the scan implements `FilterLock`
  on any number of CPUs;
* string and number symbols with ranges in `Kconfig`, menus of more than two
  entries and selects in `MenuFinalize`;
* host packages and virtual packages in `PackageBuild`.
