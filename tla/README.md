# A verification project for the kernel in `src/c15_sys_interaction`

`src/` holds the chapter snapshots of one x86 teaching kernel. The last one,
`c15_sys_interaction`, contains what the earlier ones do and is the program
modelled here. It runs on one processor: concurrency comes from the clock
interrupt, which may switch threads wherever interrupts are enabled, and from the
interrupts of the keyboard and the disk. `NDEBUG` is not defined in the makefile,
so every `ASSERT` is active, and a failed one disables interrupts and loops for ever.

The modules are TLA+ (no PlusCal). TLC checks small instances; TLAPS proves what
is proved for all values of the constants.

## The system

| component | files | state | operations | hard behaviour | what makes it correct |
|---|---|---|---|---|---|
| scheduler, threads | `thread/thread.c`, `switch.S`, `device/timer.c` | running task, ready list, list of all tasks, status, slice, `next_pid` | `thread_start`, `schedule`, `thread_block`, `thread_unblock`, `thread_yield`, clock interrupt, `idle` | preemption anywhere, woken threads jump the queue, a task has one list tag for all lists | a task is in at most one list, the one its status tells; every ready task runs; pids differ |
| semaphores, locks | `thread/sync.c` | value, waiters, holder, repeat count | `sema_down`, `sema_up`, `lock_acquire`, `lock_release` | a woken thread may lose the race for the unit; recursion; `sema_up` from interrupts | mutual exclusion, no lost wake-up, unit neither lost nor doubled |
| io queue | `device/ioqueue.c` | ring buffer, `consumer`, `producer`, lock | `ioq_getchar`, `ioq_putchar` | an interrupt handler as producer; a sleep inside a test | bounded FIFO; nobody sleeps on what he waits for |
| keyboard | `device/keyboard.c` | modifiers, prefix, caps lock | interrupt handler | state carried from byte to byte | modifiers and characters agree with the keys |
| disk driver | `device/ide.c` | `expecting_intr`, `disk_done`, channel lock, registers | `ide_read`, `ide_write`, `busy_wait`, `intr_hd_handler`, `identify_disk`, `partition_scan` | late interrupts of finished commands, slow devices, 256-sector chunks in a byte | each sector moves for its own request; the channel comes back |
| physical memory | `kernel/memory.c`, `lib/kernel/bitmap.c` | two page bitmaps, two locks | `palloc`, `pfree`, `page_table_add`, `mfree_page` | two pools, two locks, one caller that uses both | a page has one owner; the bitmap agrees with the page tables |
| heap | `kernel/memory.c` | virtual bitmap, arenas, free lists | `sys_malloc`, `sys_free`, `malloc_page`, `vaddr_get` | arenas appear and disappear under the free lists | regions never overlap; what is given back is free again |
| processes | `userprog/process.c`, `tss.c`, `fork.c` | page directories, user address bitmap, TSS, CR3 | `process_execute`, `process_activate`, `sys_fork` (not in the call table) | CR3 and TSS follow every switch | the running process runs in its own directory |
| system calls | `userprog/syscall-init.c`, `lib/user/syscall.c` | dispatch table | `int 0x80` | interrupts are disabled on entry | a trap lands on the stack of the process that runs |
| inodes | `fs/inode.c` | list of open inodes, inode table on disk | `inode_open`, `inode_close`, `inode_sync`, `inode_release` | look up, sleep in a disk read, insert | one in-memory inode per number |
| files | `fs/file.c` | table of open files, descriptors, block and inode bitmaps | `file_create`, `file_open`, `file_write`, `file_read`, `file_close` | block arithmetic, roll-back, tables without locks | bytes read are the bytes written |
| directories | `fs/dir.c` | entries in 12 direct and the indirect blocks | search, add, delete entry | empty blocks are released | an entry names one live inode |
| file system | `fs/fs.c`, `super_block.h` | mounted partition, super block, bitmaps | `sys_open`, `sys_unlink`, `sys_mkdir`, `partition_format`, `filesys_init` | several disk writes per operation | bitmaps, inodes and entries agree |
| console, printing, strings | `device/console.c`, `lib/` | console lock, cursor, video memory | output | the cursor is read and written in separate steps | no character is lost |
| partitions | `device/ide.c`, `fs/fs.c` | partition list, counters, sectors | `partition_scan`, `partition_format`, `mount_partition` | recursion with global counters, three bases for addresses | partitions lie where they are and keep apart |
| boot | `boot/loader.S`, `kernel/init.c`, `kernel.S`, `kernel/interrupt.c` | memory size, interrupt table and mask | memory detection, `init_all` | three BIOS calls, narrow registers; interrupts are enabled before `ide_init` | the pools lie in memory that exists |

How they interact: everything that sleeps goes through `thread_block`, everything
that wakes through `thread_unblock`. Locks and semaphores are built on these two;
the io queue uses them both directly and through its lock; the disk driver sleeps in
a semaphore that its interrupt handler ups; memory, console and `allocate_pid` use
locks; the file system uses the disk driver and the heap and has no lock of its own.
Data shared with an interrupt handler is guarded by disabling interrupts.

## Modules

| module | models | composed of |
|---|---|---|
| `Scheduler` | the routines of `thread.c` and the clock interrupt as complete state changes (each runs with interrupts disabled) | |
| `Sync` | `sync.c` step by step, where a step ends at each point at which interrupts may be taken, with threads that call anything they may call, in any order | `Scheduler` |
| `LockSpec` | abstract: an atomic recursive lock | |
| `IoQueue` | `ioqueue.c`, with threads and the keyboard's interrupt | `Sync` |
| `BoundedFifo` | abstract: a bounded first-in first-out queue | |
| `Disk` | `ide_read`, `ide_write`, `busy_wait` and `intr_hd_handler`, with an ATA device | `Sync` |
| `Devices` | the disk driver and the keyboard's queue at once, competing for the processor | `Disk`, `IoQueue` |
| `Keyboard` | `intr_keyboard_handler` fed by a user and a keyboard | |
| `Frames` | `palloc`, `pfree` and `page_table_add` line by line | `Sync` |
| `Screen` | `put_char` and the text that a reader expects (operators) | |
| `Processes` | processes: page directories and page tables, `palloc`, `page_table_add` and `mfree_page` access by access, `process_activate` at every switch, the calls `malloc`, `free` and `write`, the console | `Sync`, `Screen` |
| `Bitmap` | `bitmap_scan` as operators, loop by loop, and its reference definition `Runs` | |
| `LinkedList` | `list.c` with its pointers (operators) | |
| `ThreadLists` | the lists of tasks with their pointers, and the search in the ready list when a task is created | `Sync`, `LinkedList` |
| `Arena` | `sys_malloc` and `sys_free`, each call one step (the pool's lock makes it one) | `Bitmap`, `LinkedList` |
| `HeapSpec` | abstract: regions handed out never overlap | |
| `MemPools` | memory detection of `loader.S` and `mem_pool_init` | |
| `Memory` | the kernel's memory from the BIOS to the heap | `MemPools`, `Arena` |
| `Partitions` | `partition_scan`, `partition_format`, `filesys_init`, `mount_partition`, and which disks they are made for (`AsFdisk`) | |
| `FileBlocks` | which blocks a file has and how `file_write` allocates them (operators) | |
| `FileIo` | `file_write`, `file_read`, `sys_lseek` of one file, with the bytes of every sector | `FileBlocks` |
| `Volume` | a disk from its partition tables to the bytes of a file | `Partitions`, `FileIo` |
| `Dir` | inodes in memory and on the disk, directory entries (operators on the state of a partition) | `FileBlocks` |
| `Fs` | `sys_open`, `sys_close`, `sys_write`, `sys_unlink`, `sys_mkdir`, `sys_rmdir`, each call one step | `Dir` |
| `FsDirs` | `sys_opendir`, `sys_closedir`, `sys_readdir`, `sys_rewinddir`, `sys_chdir`, `sys_getcwd` among those calls | `Fs` |
| `NameSpace` | abstract: a tree of names that changes at one path at a time | |
| `MC...` | small instances for TLC | |
| `Numbers` | lemmas on natural numbers that the proofs share | |
| `Sync_proofs` | the theorems about `Scheduler` and `Sync` | `Sync` |
| `Drivers_proofs`, `ThreadLists_proofs`, `Processes_proofs` | the theorems about these components (the drivers are `Disk`, `IoQueue` and `Keyboard`), on top of the former | `Sync_proofs` |
| `Memory_proofs` | the theorems about `Bitmap`, `MemPools`, `LinkedList` and `Arena` | `Memory` |
| `Volume_proofs` | the theorems about `Partitions`, `FileBlocks` and `FileIo` | `Volume` |
| `Fs_proofs` | the theorems about `Dir`, `Fs` and `FsDirs` | `FsDirs`, `Volume_proofs` |

**State.** `current`, `status`, `ready`, `ticks` are `running_thread()`, `status`,
`thread_ready_list` and `ticks`; `panic` is a failed `ASSERT`. `value`, `waiters`,
`holder`, `repeat` are the fields of `struct semaphore` and `struct lock`. `intr[t]` is
the interrupt flag a thread runs its own code with: the library saves and restores it,
so inside the library it is off and after it as before. `depth` counts the acquires
a thread has not released (a ghost). `pc[t]` is the place in the library:
`body` (outside), `down`, `wait` (in or after `thread_block` of `sema_down`), `own`
(between `sema_down` and the assignment of `holder`), `up` (`lock_release` before
`sema_up`), `parked` (in a `thread_block` outside semaphores), and `sti`, `halt` for
`idle`. `IoQueue`, `Disk`, `Frames` and `Processes` add the variables of their component
and a place `at` in it; their steps that enter the library are steps of `Sync`
conjoined with what the component adds.

In `Processes`, `dir[f]` and `table[f]` are the contents of the page frame `f` when it is a
page directory or a page table, `taken` the frames whose bit is set in the two pools'
bitmaps, `vbits` the address bitmaps (that of `Main` is `kernel_vaddr`), `cr3` and `esp0` the
processor's registers; `cells` and `cursor` are the video memory, and `bx` what `put_char` has
read. `at` is the call a thread is in and `step` how far it is inside; `vaddr`, `page_phyaddr` and
`pde_phyaddr` are the local variables of that name in `malloc_page` and `page_table_add`, and `got` is the page that
`get_kernel_pages` has returned to main. Every step in which another task becomes `current` also activates its directory,
because `schedule` does. `Main` stands for the kernel's threads, which share one directory.

In `Arena`, `links` holds the `free_elem` of every free block and the heads and tails of the free
lists; `free_list`, what a walk meets, is computed from it. In `ThreadLists`, `links` holds every
`general_tag` and the heads and tails of the lists beside the sequences of `Sync`, with what a tag
keeps when it leaves a list during a search; `elem` is where `elem_find` is in main's search. In
`MemPools` the state is where the boot is, and the pools with the place and length of their bitmaps. In `Partitions` it is the stack of calls of `partition_scan` with the global
counters (the lengths of `prim` and `logic`), and `sector`: what each sector of the disk was
last written with.

In `Fs` the record `part` is `cur_part`: its two bitmaps, `open_inodes`, and the sectors of
inodes, entries and indirect tables. The bitmaps in memory and on the disk are one, since
every call that succeeds writes what it changed. `file_table` and `fd_table` hold only the
slots in use. A failed `ASSERT`, or a loop that cannot end, is a value of `failed` after which no
call is made. `FsDirs` adds the caller's directory handles (`dirs`) and `cwd_inode_nr`.

**Steps.** A call of `Arena`, `FileIo`, `Fs` and `FsDirs` is one step: the first runs under its pool's
lock, and `main` is the only caller of the file system. Elsewhere, with interrupts disabled a routine is one step. Where they are enabled, each
access of shared state is a step of its own: in `Processes` for instance `palloc` is a scan and a set, and `page_table_add` a
look at the directory, the `palloc` of a page table, the directory's entry, the `memset` of the table and the entry for
the page, with the clock between any two of them but for the bound `PallocAlone` (below). Coarser than that are: a
`bitmap_set` or `bitmap_scan`, a `memset`, a `*pte` test with the assignment that follows it, `page_table_pte_remove` with
`vaddr_remove`, and the two reads of the status register in `busy_wait` (`ide.c:139`), between
which the device of a command does not change. The 10 ms that `busy_wait` sleeps after its last look, before the `PANIC`,
are left out. A step in which a thread loses the
processor ends with another thread as `current`; the switch itself has no step.

**Ghosts** record history for properties and influence nothing: `depth`; `down`, `caps`, `wanted` in `Keyboard` (the user's view); the
identity of the requester in the disk registers and the device; `mapped` in `Frames`;
`held` in `Arena`; `home` (the frame of each task's directory) and `text` (what was printed) in `Processes`; `got` in `FileIo` (what the last read returned);
`names` in `Fs`, which is computed from `part` and is what `NameSpace` sees.

**Variants.** Definitions whose comment starts with `Variant` are faulty forms of the
definition that follows them: they belong to no specification and serve to show that
a property notices that fault.

**External parts**, modelled from how the code uses them: the ATA device and its
interrupt line (`DeviceReady`, `DataTransfer`, `RaiseIrq`, `LowerIrq`, `TakeCommand`)
and the keyboard with its user (`Send`, `Press`, `Lift`). The BIOS is the set `Machines` of
answers, and the tool that partitioned the disk the set `Layouts` of tables. The disk device raises its interrupt
once for each sector, arbitrarily late; once it has asked for the first sector of
a command it takes or delivers the others as fast as the driver moves them. The driver
depends on that, since it moves a chunk after one look at the status register.

## Runs

| run | instance | shows |
|---|---|---|
| `sync_safety` | `ThreadLists` with main, idle, 2 threads, which main creates by `thread_start` or `process_execute`; 1 recursive lock, 1 semaphore upped by an interrupt; recursion 2 | the invariants of the library, pointers included, and the refinement of `LockSpec` |
| `ioq_fifo` | 2 consumers, 1 producer, keyboard, buffer of 3, 2 characters | refinement of `BoundedFifo` and of `Sync` |
| `disk_requests` | main and 1 thread, requests of 1 to 3 sectors, chunks of 2, 2 polls | every sector for its request; refinement of `Sync` |
| `devices_live` | main uses the disk (1 sector, 1 poll), 1 consumer the keyboard's queue (buffer of 2), every tick a switch | the channel comes back; every character is read; every ready thread runs |
| `keyboard_modifiers` | 7 keys, one of each kind, 3 bytes under way | modifiers and characters agree |
| `processes` | main and 2 processes that it creates; page tables of 2 entries, 11 and 4 frames, a screen of 2 by 2; under `PallocAlone`. One of three workloads: main allocates and frees a page and each process allocates one; each process allocates and frees a page; each thread prints 2 characters | each task in its own directory; the kernel in all of them; no frame in two places of the processes' page tables; the screen shows the text |
| `heap` | 55 machines; on those with the right amount of memory 4 pages in 2 bytes of the bitmap, 2 and 1 blocks per arena, requests of a small block of each size, one page, two pages | the pools fit; refinement of `HeapSpec`; agreement of arenas, lists and bitmap; `bitmap_scan` returns the first run in every bitmap that arises |
| `file_io` | disks with 0 to 3 primary and 0 to 3 logical partitions, the extended one anywhere among them; on `sdb1` one file of up to 5 bytes in blocks of 2, 3 direct blocks; writes and reads of 1 to 3 bytes; 5 blocks shared with other files | partitions are found and kept apart; bytes are read back, blocks are counted, no other sector changes |
| `fs_calls` | file `/a`, directory `/d`, file or directory `/d/x`; 4 inodes, 6 blocks, 2 entries in a block; 2 slots, 2 descriptors, 1 directory handle | bitmaps, inodes, entries, counters, listings and working directory agree; refinement of `NameSpace`. (Of `AssertsHold` it reaches the `ASSERT` of `dir_remove` only: no directory of 4 inodes has indirect blocks, in which the loop of `dir.c:296` would be.) |

The properties are stated with their meaning next to their definitions. Those at the core:

* `MutualExclusion`, `ImplementsLock`, `NoLostWakeup`: whatever ticks, wake-ups and lost races
  come between the steps, one thread is inside, the unit is in the semaphore or with one
  thread, and if it is in the semaphore while threads wait, a woken one is on its way.
* `ListsAgree`: the one tag a task has is linked where its status says, once.
* `TagsAgree`, `ProcessWalkStays`: one tag moves between all lists and is never cleared; whoever
  searches a list must keep it from changing.
* `ReadyTaskRuns`, `CharactersRead`, `ChannelReturned`: although woken threads are pushed to the head
  of the ready list, by two devices at once.
* `ImplementsFifo`: interrupt, consumers and producers do not lose, repeat or reorder.
* `TransfersMatch`, `QuietWhenFree`, `PanicsOnlyOnTimeout`: the driver takes an interrupt of
  an earlier command for its own (`disk_done` is upped early) and survives it, because
  `busy_wait` looks again.
* `RunsInOwnSpace`, `KernelEverywhere`, `UserPagesOwn`: the registers follow every switch; the kernel's
  page tables are all there from the boot, so that a directory copied once shows what the kernel
  maps later; a frame given back has left its process, and what its owner left in it does not become a page
  table's entry (both under `PallocAlone`).
* `ScreenShowsText`: through line feeds and scrolling, with prints preempted between the read of
  the cursor and its write.
* `PoolsFit`: the number of pages passes through a `uint16_t`; were it wider, a machine with much memory
  would have bitmaps in `main`'s `task_struct` (that is the mutant).
* `VolumesFound`, `VolumesKept`: a chain of extended partitions is followed to where the volumes are,
  and what `partition_format` writes to one of them stays in it.
* `ArenasAgree`, `PagesAgree`, `BlocksAgree`, `NamesAgree`, `CachedAgree`, `HandlesCounted`: the
  redundant records of who has what agree.
* `CwdFound`: the path that `sys_getcwd` climbs to by `..` is the one path that leads there.
* `BytesKept`, `OthersKept`: where `file_write` puts data is where `file_read` looks, and nothing
  else, although blocks are allocated early and from a bitmap full of holes.
* `ListingAgrees`: the code counts entries to find the one at `dir_pos`; the comment at
  `dir.c:372` considers dividing instead, which is the mutant that breaks this property.
* `ImplementsNames`: the tree of names changes at one path at a time: a name is made where there is none, under a directory
  that exists; only files and empty directories are removed. It does not tie that path to the one the call was given, because the code
  does not: `sys_unlink("/f/x")` with a regular file `/f` removes `/f` (`fs.c:274`).

### Disagreements between the code and what it says of itself

Each is a run in which TLC violates one property that states a comment of the source.

| run | disagreement |
|---|---|
| `frames_page_tables` | a page table's page is taken without the lock of its pool (`memory.c:148`): one page, two owners |
| `file_indirect` | a write that crosses from direct to indirect blocks never enters the new indirect blocks in `all_blocks` (`file.c:363`): their data go to sector 0 of the disk, and the table is written as zeros |
| `fs_open_counts` | `sys_open` of a file below the root leaves its directory open (`fs.c:352`): the inode stays in `open_inodes` after `sys_rmdir`, and is taken for a later directory of that number |

In the passing runs these do not show: `processes` is under the bound `PallocAlone`, by which the clock does not
come between the scan and the set of a `palloc` (with `TRUE` in its place TLC finds each of `RunsInOwnSpace`, `KernelEverywhere` and
`UserPagesOwn` violated in the same instance: a frame that main takes for a new process is also the page table
that `page_table_add` clears);
`file_io` keeps the file in its direct blocks, and
`fs_calls` opens files of the root only (below it, it creates, writes, closes and removes).

Met while modelling, without a run of their own:

* `ioq_getchar` tests the buffer before `lock_acquire` and not after it (`ioqueue.c:51`): a
  consumer that had to wait for the lock sleeps on a filled buffer. It takes two consumers,
  which this snapshot does not have; `devices_live` has one.
* `allocate_pid` returns `next_pid` after it has released `pid_lock` (`thread.c:51`): two calls
  may return one pid. It takes two creators of tasks; in this snapshot `main` is the only one.
* `bitmap_scan` counts the bit after the bitmap (`bitmap.c:50`), so a region's last page may lie
  outside the pool. `Bitmap` follows the code; `ScanAgrees` and `PagesAgree` allow for it.
* `thread_start` searches the ready list with interrupts enabled (`thread.c:116`), where
  `process_execute` disables them. The tag that the search stands on may move to a semaphore's
  waiters; the search then follows it past the tail of that list (`list.c:64`) to NULL. `sync_safety`
  reaches this, and lets such a search go no further, since what lies at address 0 is not known.
  Read as a property of both, `ProcessWalkStays` fails: that is its mutant.
* A woken thread may find the lock taken and block again (`sync.c:24`), while the comment
  at `sync.c:34` says that it has the lock. Harmless: `sema_down` loops.
* `ioq_putchar` has the same test before its `lock_acquire` as `ioq_getchar`
  (`ioqueue.c:74`): a producer may sleep on an empty buffer, and a consumer after it. No
  thread calls it in this snapshot.
* `time_limit -= 10 >= 0` subtracts 1 (`ide.c:139`): `busy_wait` waits ten times the 30
  seconds that its comment states.
* One flag stands for the two shift (control, alt) keys (`keyboard.c:142`): releasing one
  forgets the other. `keyboard_modifiers` therefore has one key of each kind.
* A full pool fails the `ASSERT` at `bitmap.c:29` before `return -1`, so `malloc_page`
  halts the kernel where its comment promises NULL. Runs that may fill a pool
  let the system stop there.
* `mtime_sleep` needs the clock's interrupt, so in a system call, where interrupts are
  disabled, it waits for ever unless another thread is ready (`timer.c:57`). No system call
  reaches the disk yet, which is why `devices_live` has no caller of that kind.
* File system, each at its line: `file_write` to the largest size it accepts fails its own
  `ASSERT` (`file.c:284`); a file that ends with a full block has a block more than its data
  need (`file.c:280`); `fd_pos` is not moved by a write and is 2^32 - 1 after the first one
  (`file.c:405`), so `file_read` fails its `ASSERT` (`file.c:464`) unless `sys_lseek` comes between;
  a descriptor that writes keeps others out only until any descriptor of the file is closed
  (`file.c:223`), and a file that was just created is not protected at all (`file.c:137`);
  `file_open` leaves its slot taken when another one writes the file (`file.c:209`), and
  `pcb_fd_install` when no descriptor is free; `sys_unlink("/f/x")` of a regular file `/f` deletes
  `/f`, since the walk stops there (`fs.c:274`) and the depth is not compared;
  `sys_rmdir` tests neither the type (`fs.c:676`) nor open handles of the directory nor working
  directories: a handle then reads, and `sys_getcwd` climbs from, an inode that is free or another
  one's; `sys_getcwd` in such a directory fails an `ASSERT` where its comment promises NULL
  (`fs.c:749`), and in the root leaks its buffer (`fs.c:766`); `sys_opendir("/")` returns the one
  `root_dir`, which is not rewound, and its test for `/.` looks at `name[0]` (`fs.c:621`); `dir_pos`
  counts entries, so a listing during which one is removed skips another (`dir.c:353`);
  `sys_mkdir` does not give back the block when it fails (`fs.c:606`); `sys_stat` never closes the inode
  (`fs.c:832`); `sync_dir_entry` ignores the indirect blocks there are (`dir.c:139`);
  `delete_dir_entry`'s loop over indirect blocks does not advance (`dir.c:296`);
  `partition_format` clears one bit too many (`fs.c:139`), the block behind the partition, which
  `VolumesKept` leaves out.
* Partitions: a fourth primary partition fails the `ASSERT` after `p_no++` (`ide.c:302`), although there
  is room for it; the return at the eighth logical one (`ide.c:310`) ends one call of the recursion
  only, and leaks `bs`; `ext_lba_base` and `part_idx` are not reset for a second disk, which
  the image does not have; `filesys_init` formats partitions that have a file system too (`fs.c:883`,
  against the comment at `fs.c:879`); without `sdb1` it follows a null `cur_part` (`fs.c:904`); a
  partition smaller than the tables wraps `free_sects` around (`fs.c:80`).
* Memory detection compares signed numbers, so areas that end above 2 GB do not count
  (`loader.S:63`), and takes the largest area for usable whatever its type (`loader.S:57`);
  less than 2 MB wraps `free_mem` around (`memory.c:276`).
* `start_process` reads `self_kstack` (`process.c:18`) with interrupts enabled, and `switch_to` overwrites
  it when the process is preempted before that.
* The keyboard's handler prints its error message without the console's lock (`keyboard.c:198`): a print
  that it interrupts between the read and the write of the cursor overwrites it.

### Bounds

Bounds are constants: `MaxRepeat` (nested acquires), `MaxWire` (bytes
on the way), `MaxSectors`, `MaxPolls`, `PoolSize`, `PageCount`, `Requests`,
`Counts`, `MaxSize`, `Workloads` (the calls of each kind that the threads of `Processes` make), `HeapPages`, and in `Fs` and
`FsDirs` the paths `FilePaths`, `OpenPaths`, `DirPaths`, `OpenDirPaths`, `ChdirPaths` and `HandleCount`.
`PallocAlone` is a bound of `Processes`: the clock does not interrupt a `palloc` between `bitmap_scan` and `bitmap_set`. The comment at
`memory.c:116` demands it of the callers; all keep to it by the lock of the pool, but for `page_table_add` (`memory.c:148`), which
takes from the kernel's pool under the user pool's lock. Everywhere else in `palloc` and its callers the clock may come, so
a page table is taken and cleared while main is in the middle of `get_kernel_pages`; what is excluded is that both take one frame, which is
the subject of `frames_page_tables`. Two further bounds concern memory: what nobody has written yet is zero (`setup_page` does not clear the page tables of the kernel's heap), and
what the owner of a heap page leaves in it is one word, `Dirt`, which in the runs would be a present entry.
`OnDirectory` is a bound on the caller of `fs_calls`: it does not call `sys_rmdir` with a regular file that has the size of two entries, 48 bytes.
`InPlace` is a bound on the caller of `fs_calls`: it removes no directory that it works in or has
open. `Ready` in `Memory` and `Volume` lets the heap and the file be used on the machines and
partitions that have the size of the instance; the others are for `PoolsFit`, `VolumesFound` and
`VolumesKept`. Three threads
besides `idle` give a holder, a waiter that was woken and a newcomer, which is what
the races of `sema_down` need; a buffer of 3 holds 2 characters, so full, empty and in
between are distinct and positions wrap; chunks of 2 in requests of 3 give a full chunk
(count 0 in the register) followed by a rest; 2 polls give a device that is busy, then
ready, and one that never is; 4 pages give a hole between two regions, the last page, and
a second byte of the bitmap. A slice of 0 ticks (`MCNoSlice`) makes every clock interrupt
a switch. Blocks of 2 bytes and entries, and 3
direct blocks, make every multiple of a block occur: the first block of
a directory holds `.` and `..`, the second one up to two names, so that removals leave holes
and empty a block. 6 blocks run out, and so do slots and descriptors; `BlockSize`, `Direct`, `TableLen`,
`PerBlock` are 512, 12, 128, 21 in the code. Sizes of directories are counted in entries and what
a free block still holds is left out: it is written whole before it is read. `Word` is 64 for
2^32 in `file_io`; in `heap` a register has 8 bits, the number of pages 4, a page 2 bytes, so that pages,
kilobytes and signed comparisons wrap on machines with less than 256 bytes. Page tables of 2 entries
make a process need two of them, its heap's and its stack's, and the kernel's pages of
two processes fill three. A behaviour of `processes` has one of three workloads, since all calls together have too many states: what
main maps while processes exist, what processes give back and take again, and prints. A screen of 2 by 2 is full after 4 characters, so that the run scrolls. 3 places
for primary and 2 for logical partitions are fewer than the disks have. The two
processes of `processes` and the two threads of `sync_safety` are interchangeable and reduced by symmetry (the properties are
all about safety).
`CHECK_DEADLOCK FALSE` is given where `PANIC` or a failed `ASSERT` stops the system on
purpose (disk time-out, full pool, full partition, `file_read` beyond the end, a fourth primary partition,
a BIOS without answer); everywhere else
the system never stops.

### Fairness

`Devices` states strong fairness for each thread: of its steps in the library
together with its steps in the component once a call has begun. So a thread goes on when
it is scheduled again and again, code that disabled interrupts enables them again (each
`intr_disable` is paired with an `intr_set_status`, each system call with an
`iret`), `idle` blocks and halts, and the clock, whose request the interrupt
controller keeps while interrupts are disabled, ticks. Strong fairness is needed because a
thread's steps are enabled only while it is `current`; one slice is millions of
instructions. The device finishes what it has begun and its latched interrupt is delivered;
a consumer calls again, and main starts it. Nothing else is obliged to call: main may stop using
the disk, and nobody has to press a key.

## What is proved

`Sync_proofs` proves, for every set of threads, locks and semaphores and every slice
length, from the assumptions `ThreadsAssumption` (in `Scheduler`) and `SyncAssumption` (in
`Sync`):

* `SpecInv`: `Inv` is an invariant. `Inv` is inductive and is the conjunction of
  `TypeOK`, `NoPanic`, `ListsAgree`, `PlacesAgree`, `HolderAgrees` and `UnitsAgree`.
  `ListsAgree` needs `PlacesAgree`: that a task joins a list only from a place where it
  is in none follows from its status and place. `NoPanic` needs the lists (the `ASSERT`s
  are about membership), the holder and the unit. `MutualExclusion` follows from
  `HolderAgrees`, whose step at `Own` needs `UnitsAgree`: between `sema_down` and the
  assignment of `holder` a thread owns a lock that has no holder yet.
* `SpecTypeOK`, `SpecNoPanic`, `SpecMutualExclusion`, `SpecListsAgree`, `SpecUnitsAgree`:
  its consequences. `sync_safety` checks them on a small instance, but for `TypeOK`, `UnitsAgree`
  and `PlacesAgree`, which are here for the sake of the proof.
* `SpecNoLostWakeup`: proved relative to `Inv`, one lemma for each way a waiter may be
  added, woken, or take the unit.
* `SpecImplementsLock`: refinement of `LockSpec` with `held <- depth`. Only `Own`,
  the re-acquire and `lock_release` change `depth`; the other steps stutter.

Lemmas on sequences without duplicates (`AppendList`, `PushList`, `PopList`), on
`schedule` and on `thread_unblock` carry most of the work; then there is one lemma for
each action.

Each further component has an inductive invariant that extends `Inv`, or one of its own, and its
theorems hold for every value of the constants that the named assumptions admit.

`Drivers_proofs`, about the disk (`DiskAssumption`: a request has at least a sector, a chunk at least one). `DiskInv` is
`Inv` with the types, what each place of a thread in `ide_read` or `ide_write` says of the channel's
lock, `disk_done`, `expecting_intr` and the device's phase (`CallerFits`), that the others are not in
the channel (`OthersStayOut`), that `disk_done` is down while an interrupt is expected, and that the channel is
at rest when nobody works with it (`Quiet`). The hard step is the interrupt of an earlier command:
it ups `disk_done` early, so `CallerFits` cannot say that a thread past `sema_down` has an answer; it says
what `busy_wait` looks at.
`DiskImplementsSync` makes every theorem of `Sync_proofs` one about the driver; `DiskTransfersMatch`,
`DiskQuietWhenFree` and `DiskPanicsOnlyOnTimeout` are the properties of `disk_requests`.

`Drivers_proofs`, about the queue (`IoQueueAssumption`). `IoqInv` relates the places of consumers and producers to
`consumer`, `producer` and the indices; `SleepersFit` says that who is registered sleeps or is about
to, so that `wakeup` unblocks a thread that is blocked. `IoqImplementsSync` and
`IoqImplementsFifo` are the refinements that `ioq_fifo` checks. The indices are positions modulo the size of the buffer; the
proof has lemmas on the number of characters between them.

`ThreadLists_proofs` (`ThreadListsAssumption`, `TagsAssumption`: tags, heads, tails and NULL are different things).
`ListsInv` says that each list is a chain of `next` and `prev` through the tasks of Sync's sequence
(`ListsHold`, `Chained`), that chains are apart, and where a search stands. `TagsAgreeHolds`,
`ProcessWalkStaysHolds` and `ListsImplementSync` follow. The search that `thread_start` makes with interrupts
enabled is in the model, but `ProcessWalkStays` does not speak of it: it does leave the list (see "Met while modelling").

`Processes_proofs` (`ProcessesAssumption`; `RoomAssumption`: the pools and the kernel's half of the address space have room
for every process and heap, since no allocation fails in this model; `NullAssumption`; `DirtAssumption`), with one hypothesis, which is a conjunct of `ProcessesSpec` as
`InPlace` is one of the file system's: `PallocAlone`. In the code it may fail at `memory.c:148`, and then so do the theorems on frames.
`ProcessesInv` is `Inv` with the types, the page directories and frames (`SpaceInv`), the locks of the
pools and of the console (`LocksFit`), what `put_char` has read and not written yet (`TextFits`), and
`ScreenShowsText`, which is inductive with `TextFits`.

* `SpaceInv` holds between any two accesses, so it has to say who owns a frame in the middle of `malloc_page`: `KFrame`, `UFrame` and
  `TableOf` are the page tables together with what is in hand, `Owned` the pages whose bit is set and
  whose frame is taken (after `palloc`, and until `pfree`, which comes before the bit is cleared). `MapsFit` says that the frames so owned
  are all different and are exactly those marked in the pools, and that the entries of all other pages are empty; a page table
  that is not cleared yet is excepted (`Uncleared`). `HandFits` says what a thread has in hand at each step; its clauses for `set` and `tset`,
  that the frame found by the scan is still free and its finder still running, are where `PallocAlone` is used.
* Two threads may be in `page_table_add` at once, main under one lock and a process under the other: main never needs a table, for the
  kernel's half has them all from the boot (`KernelHalf`).
* `RunsInOwnSpaceHolds`, `KernelEverywhereHolds`, `UserPagesOwnHolds`, `ScreenShowsTextHolds` follow: the properties that `processes` checks. So does
  `ProcessesImplementSync`.

`Drivers_proofs`, about the keyboard. `KeysInv` says that the bytes under way lead, through a sequence of states of the handler, to
what the user sees: a press appends a byte and a state, an interrupt takes the first of each. `KeysAgreeHolds`
has the hypothesis `OneOfAKind`: at most one shift, one ctrl and one alt key, since one flag
stands for two keys (`keyboard.c:142`); with both keys of a kind the property is false.

`Memory_proofs` (`ArenaAssumption`, `MemoryAssumption`, `MachinesAssumption`, `RoomForMaps`):

* `ScanAgreesHolds`: the two loops of `bitmap_scan` against the reference definition `Runs`, in every bitmap. `count` after
  `k` rounds is the distance to the last bit that is set (`CountIsGap`), so it first reaches `cnt` at the
  end of the first run (`GapIsRun`, `ScanIs`).
* `PoolsFitHolds`: `BootInv` says which answer `mem_init` goes by. `MachinesAssumption` is what the code takes for granted
  of the firmware: what it reports from the end of the kernel's own memory on is there, or the machine has more pages than a
  `uint16_t` counts. `RoomForMaps` says
  that the bitmaps of as many pages as can be counted end before `main`'s `task_struct` (`memory.c:303`): 3 * 65536 <= 2 * 8 * 16384 in the code.
* `HeapSpecInv`: `HeapInv` is the invariant of `sys_malloc` and `sys_free`: there is an assignment of free blocks
  to descriptors which the free lists represent (`Listing`: chains of `prev` and `next`) and with which arenas, bitmap and held regions are
  `Sound`. `PagesSound` relates arenas to the bitmap, `HeldSound` the regions to their arenas,
  `FreeSound` the free blocks to arenas, regions and counts; `NoneIdle` says that no arena is kept without a held block.
  The lists have lemmas of their own: what an append, a removal, a search, the blocks of a whole arena appended or removed
  make of a `Listing`. Then there is a lemma for each change (a large or a split arena comes, a block is taken or given
  back, an arena goes), and one for each action, which combines them: the last block given back is `BlockGiven` followed by
  `SmallDropped`, and `AllFree` says that the test `++a->cnt == blocks_per_arena` is true exactly then.
* `ImplementsHeapHolds`, `ArenasAgreeHolds`, `PagesAgreeHolds`: its consequences, which `heap` checks.

`Volume_proofs`, about the scan and the formatting (`PartitionsAssumption`, `FdiskLayouts`):

* `FdiskLayouts` says of the disks what `AsFdisk` describes: one chain of tables from the master boot record, each
  with one entry that leads to the next; in a table of a logical volume nothing comes after that entry; volumes that share no sector with
  each other or a table, with room for the root directory. The code takes this for granted. There is no bound on the number of tables, entries or
  volumes, and the extended partition may stand anywhere in the master boot record. TLC evaluates the assumption for the disks of `file_io`.
* `VolumesFoundHolds`. `ScanFits` relates the calls of `partition_scan` to the chain: each call but the last one stands behind the entry
  that leads to the next table (`StackFits`), `ext_lba_base` is where the chain begins as soon as it has been entered, and a
  volume is either in `partition_list` or its entry will still be read, not both (`Found`). When `logic_parts` is full, the calls of the
  logical tables have nothing left to read, because their last entry leads on: this is why the `return` at `ide.c:310`, which ends one
  call only, does no harm on such disks. Without that clause of `AsFdisk` a further volume would be appended behind the end of `logic_parts`.
* `VolumesKeptHolds`. `FormatFits` says that the areas of all partitions formatted so far are what was written there. Its
  arithmetic is `VolumeRoom`: the block bitmap needs no more sectors than were first set aside for it, so the last block ends inside the volume.

`Volume_proofs`, about the file (`FileBlocksAssumption`, `FileIoAssumption`), with two hypotheses: `DirectOnly`, files stay within the direct
blocks, since beyond them the code is wrong (`file_indirect`); `CountsFit`, `fd_pos + count` does not wrap around 2^32, since `file_read` compares the
sum with the size (`file.c:443`).

* `BytesKeptHolds`, `ReadsBackHolds`, `BlocksCountedHolds`, `OthersKeptHolds`. `FileInv` is `Sound` (the file has exactly the blocks of its
  size, all different and all marked; they hold the bytes that were written; the other sectors are untouched) with `ReadsBack`.
  `NewSectorsLemma` says what a write makes of `i_sectors`: that the block of index `i` is the free block with the right
  number (`NthFreeLemma`), however many there were before and whichever are free; `WrittenSound` follows the
  bytes into them.

`Fs_proofs` (`FileBlocksAssumption`, `DirAssumption`, `FsAssumption`, `FsDirsAssumption`), with the hypotheses `FsBounds`:

* `SmallNumbers`, at most 256 inodes, since `inode_sync` keeps a number in a `uint8_t` (`inode.c:50`), and `ShortDirs`, fewer inodes
  than a directory has entries in its direct blocks, since `sync_dir_entry` ignores the indirect blocks there are (`dir.c:139`). A partition has
  4096 inodes and a directory 252 entries in its direct blocks: the theorems are about the file system as long as it uses no more
  inodes than that, and beyond them the code is wrong. `DirectOnly` is the same for the blocks of a file.
* `RootFiles`: files that exist are opened in the root only, since below it `sys_open` leaves their directory open (`fs_open_counts`).
  Files may be created, written, closed and removed anywhere.
* `PathsClosed`: the set of paths that calls are made with contains the directories on the way to each of them. It is there
  because the paths are a constant of the model; the set of all paths satisfies it.
* `InPlace` is a conjunct of the specification, as in the run: no directory is removed in which the caller works or that it has open. So is
  `OnDirectory`: `sys_rmdir` is not called with a regular file of the size of two entries, which `dir_is_empty` takes for an empty directory (`fs.c:676`).

There is no bound on the depth of the tree, the number of names, blocks, slots, descriptors and handles, nor on the sizes of blocks. `FsInv` holds between two calls:

* `Layout`: a block that the bitmap marks is a direct block of one inode that the other bitmap marks, in one place, and free blocks have no
  entries. This is what makes a block taken by one call, and given back by another, nobody else's.
* `SizesFit`: the size of a directory is the number of its entries and each of its blocks but the first has one (the clause that makes the
  `ASSERT` of `dir_remove` hold, and `delete_dir_entry` stop), a file has the blocks of its size.
* `NamesFit`: every inode but the root's has one name, `.` and `..` are the first two entries of a directory and lead where they should.
* `Reached`: a path leads to every directory. The names do not say it: two directories, each in the other, would agree with all of them.
* `Cached` and `HandlesFit`: inodes in memory are those on the disk, and `i_open_cnts` counts slots and handles.

The lemmas follow the code from the inside out: what `search_dir_entry`, `sync_dir_entry`, `delete_dir_entry`, `inode_sync`, `inode_open`, `inode_close` and `inode_release`
make of the record `part` (`SearchIs`, `SyncDirEntryIs`, ...). `Grown` relates two partitions of which one has an entry, with its inode, that the other has not, wherever it is
placed: a removal is a creation seen from the other end, so the lemmas on the walks of `search_file` (`GrownWalk`, `PathUnique`, by the shortest path that
refutes them) and on the names serve both. Then there is one lemma for each call. `FsNextInv` proves
the invariant and the step of `NameSpace` together, since both need to know which paths the call has changed.

* `FsTypeOKHolds`, `AssertsHoldHolds`, `CachedAgreeHolds`, `HandlesCountedHolds`, `BlocksAgreeHolds`, `NamesAgreeHolds` follow from `FsInv`.
* `FsImplementsNames`: the refinement of `NameSpace` that `fs_calls` checks, namely that the tree changes at one path at a time; not that it is the
  path of the call.
* `AssertsHoldHolds` is about the `ASSERT` of `dir_remove`; that no removal loops for ever is ruled out by `ShortDirs`.
* `ListingAgreesHolds`: the number of entries before a cell tells the entries apart, so the entries and the positions below `i_size` correspond one to one.
* `CwdFoundHolds`: the climb of `sys_getcwd` from the working directory passes through the prefixes of the path that leads there, from
  the longest to the shortest (`Climbs`). That it is over after `InodeCount` steps, the bound of `Getcwd` in the model, is the pigeonhole principle:
  different prefixes lead to different inodes.

Induction over data is out of the provers' reach in general. Where a proof needs a fact about all natural numbers it
takes the least counterexample (`Numbers`): that of the loops of `bitmap_scan`, the walk through a list, the blocks of
an arena one after the other, the walk along a path and the climb of `sys_getcwd`, whose recursive functions are defined on an interval.

Only model-checked: `Frames`, whose run shows a disagreement, and every liveness property, with it all of `Devices`: the prover has no fairness.
Every safety invariant and every refinement that a passing run checks is also a theorem.

## Not modelled, and why

* Set-up of the IDT, the 8259A, the 8253, the GDT and the TSS descriptor, stack layouts and the register
  switch, loading of the kernel: sequences of constants.
* Formatting (`printf`, `put_int`), string functions, backspace: no state, or never printed.
* The second disk channel: its interrupt line is masked (`interrupt.c:61`), so a request would
  sleep for ever; the image has both disks on the first. `identify_disk` only prints.
* `sys_fork` and what only it calls: in no call table, and `fork.c` does not compile (`elem_find` gets a
  `struct list` for its address, `fork.c:177`; `update_inode_open_cnts` is not defined, `fork.c:155`). `getpid` and pids: one creator of tasks.
* `sys_stat`: it leaves open the inode it looked at (`fs.c:832`), after which `HandlesCounted` can only
  fail, as `fs_open_counts` shows for `sys_open`.
* `thread_all_list`: main alone appends to it and searches it, and nothing is removed.
* Two callers of the file system: nothing in it is locked, and main is the only caller.
* Contents of memory and of sectors, but for the file's bytes: sectors and regions are told apart by
  who owns them.
* The snapshots of earlier chapters: each is an earlier state of this program, most files of which
  are the same or shorter.

## Plan

Done: `Scheduler`, `Sync`, `LockSpec`; `IoQueue`, `BoundedFifo`; `Disk`, `Devices`;
`Keyboard`; `Frames`, `Bitmap`, `LinkedList`, `ThreadLists`, `Arena`, `HeapSpec`, `MemPools`, `Memory`; `Screen`, `Processes`; `Partitions`,
`Volume`; `FileBlocks`, `FileIo`, `Dir`, `Fs`, `FsDirs`, `NameSpace`; the proofs of `Sync`, `Disk`, `IoQueue`,
`ThreadLists`, `Processes`, `Keyboard`, `Memory`, `Volume`, `Fs` and `FsDirs`.

Next, in this order:

1. `Dir` beyond the direct blocks, where `delete_dir_entry` may loop (`dir.c:296`).
2. Two callers of the file system, with the disk reads in which `inode_open` sleeps as steps, and
   the windows in which it has set `pgdir` to NULL.
