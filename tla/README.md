# FurOS in TLA+

FurOS is a freestanding x86-64 kernel: a text-mode desktop, a terminal shell and
an installer over one in-memory filesystem that is saved as a whole to an ATA or
AHCI disk. There are no processes, no threads and no interrupt handlers: the
program polls the keyboard and the disk controller and does one thing at a time.
What makes it hard is elsewhere: power that fails in the middle of a save, a
drive that caches what it was told to write, a session that keeps an index into
a table whose slots are reused, errors that are discarded, commands to a
controller that time out and complete later, a keyboard that sends while nobody
listens.

Source lines below are those of the repository (`fs.c` is `src/kernel/fs.c`).

## 1. Inventory

| component | source | state | operations | talks to |
|---|---|---|---|---|
| image store | `disk.c` | sector and payload buffers, last error; the disk itself | init, load, save, format, install the system | driver, filesystem |
| filesystem | `fs.c` | table of 128 nodes (used, kind, parent, owner, mode, name, data) | init, resolve, create, write, remove, chmod, chown, list, path of a node, (de)serialize | called by everything below |
| shell | `shell.c` | `shell_cwd`, uid, exit flag, packages, wireless link | login, commands, logout | filesystem, image store, keyboard, console |
| desktop | `desktop.c` | active workspace and application, buffers of the applications | launcher, file manager, editor, settings, terminal, shutdown | filesystem, image store, shell |
| installer | `installer.c` | the wizard's answers, chosen disk | eight stages, then the installation | filesystem, image store, driver |
| driver | `ata.c` | device lists, selected device, DMA structures, last error | scan, select, read, write, flush | controller ports and memory |
| keyboard | `keyboard.c` | shift, ctrl, caps, extended prefix | get key, get character | controller port |
| console | `vga.c` | cursor, colour, viewport, screen memory | put, backspace, scroll, clear, set viewport | screen memory |
| entry, boot, build, strings, log | `kernel.c`, `boot.S`, `boot/`, `Makefile`, `kstring.c`, `serial.c` | none that the others read | | |

Everything is called synchronously, from the top down: `kernel_main` enters the
desktop or the installer; the desktop calls `shell_run` and gets control back at
logout; the shell calls `disk.c`, which calls `ata.c` a sector at a time. What
runs beside the program are the drives, the controllers and the keyboard, and
what can interrupt it at any point is a reset or a power loss.

What is hard, and what makes each component correct:

* **image store.** A save writes the header first and then some hundred sectors,
  through a cache that the drive empties in any order. A load must refuse a mixture
  as far as a plain sum of bytes can tell; what was saved must read back whole; what
  was flushed must survive power losses whole; a failed write must be reported.
* **filesystem.** Nodes name their parent by slot number and slots are reused.
  The nodes must form a tree with unique names and an untouchable root, and the
  path printed for a node must lead back to it.
* **shell.** It keeps `shell_cwd`, a slot number, across every command. A command
  must change only the entry it names, and a session must start with what the
  last one saved.
* **packages and network.** Five flags changed by three commands and reported by
  two: the reports must agree and a removed package must leave nothing behind.
* **driver, IDE.** Two drives share one set of registers and answer when they
  like. A command must reach the drive it is meant for, a read must return the
  sector that was asked for, a call must return.
* **driver, AHCI.** The controller writes memory by itself, also for commands
  nobody waits for any more. A read that succeeds must have brought its sector; a
  buffer must not change under its owner.
* **keyboard.** One byte at a time, keys of several bytes, several keys down. No
  key may turn into another, be swallowed or leave a modifier set.
* **console.** Wrapping, scrolling and erasing in a viewport. What the user sees
  must be the line Enter runs, and the frame around it must stay.
* **installer.** Eight stages with a way back from each, then three parts of the
  disk written in order. Nothing may be written before the user confirms, and then
  only to the disk the summary showed; a disk must boot one whole release or none;
  "complete" must mean that every part is there.
* **editor.** Line and column are computed afresh from one buffer of bytes by every
  key. The text, the cursor and the window must behave as lines do.
* **desktop.** Its programs and the shell share one table, which only the terminal
  loads. What a program shows must be what is in the table, and a table that no
  login loaded or seeded must not replace the image on the disk.

## 2. Modules

| module | models | lines of code it stands for |
|---|---|---|
| `ImageStore` | what `disk.c` promises its callers (abstract) | |
| `DiskStore` | `disk_save_fs`, `disk_load_fs`, `disk_format_fs`, the checksum, the cache of the drive, power losses; implements `ImageStore` | `disk.c`, `ata_flush`, `fs_deserialize` as far as it refuses |
| `DiskStoreProofs` | proofs about `DiskStore` | |
| `NodeTable` | every operation of the filesystem, as operators from a table to a table | `fs.c` |
| `PathTree` | what the filesystem promises a session (abstract) | |
| `FurShell` | a session: login, seeding, the commands that touch files or the disk, logout, resets and power losses; composes `NodeTable` with the outcomes `ImageStore` leaves to a disk; implements `PathTree` | `shell.c` |
| `NodeTableProofs` | proofs about `NodeTable` | |
| `FurDesktop` | the file manager, the editor, the settings and the terminal over one table and one disk, cold starts and warm resets; extends `FurShell` | `desktop.c`, `shell_run`, `disk_available`, `.bss` in `boot.S` |
| `FurDesktopProofs` | proofs about `FurShell` and `FurDesktop` | |
| `KateEditor` | the keys and the drawing of the editor; implements `TextLines` | `run_kate` and what it calls |
| `TextLines` | what a text editor promises (abstract) | |
| `KateEditorProofs` | proofs about `KateEditor` | |
| `Installer` | the wizard, then `disk_install_system`, the format, the files and the save, against what the boot sector loads; extends `NodeTable` | `installer.c`, `disk_install_system`, `disk_select`, `bootsect.S` as far as it chooses sectors |
| `InstallerProofs` | proofs about `Installer` | |
| `FurNetwork` | packages and the wireless link | `shell.c` |
| `IdeChannel` | one IDE channel, its two drives and the polling driver | `ata.c` 300-500, its callers from 940 on |
| `IdeChannelProofs` | proofs about `IdeChannel` | |
| `AhciPort` | one AHCI port, its drive and the driver that uses slot 0 | `ata.c` 524-760, its callers from 940 on |
| `AhciPortProofs` | proofs about `AhciPort` | |
| `Keyboard` | the keyboard and `keyboard_get_key` | `keyboard.c` |
| `Console` | cursor, viewport and scrolling under the terminal: `run_terminal`, the prompt, the line editor | `vga.c`, parts of `shell.c` and `desktop.c` |
| `TerminalProofs` | proofs about `Console`, `Keyboard` and `FurNetwork` | |

`MC*` modules give the constants their values for TLC. `PROJECT.json` maps every
definition to the lines it stands for.

How they compose: `DiskStore` proves that the disk behaves as `ImageStore`, and
`FurShell` uses the disk through the same outcomes (`LoadWorks`, `LoadFails`,
`SaveWorks`, `SaveFails`, `PowerLoss`), so that a session need not be interleaved with
every sector. `stored` and `cands` are those of `ImageStore`: a save that returned 0 is
what reads find, but until a flush was carried out a power loss may bring back any
image written since the last flush, the one flushed then, or none (`cached`). The one
thing `FurShell` leaves out are mixtures with an equal sum: what its disk holds is one
of `cands` as it was written, or nothing (in `ImageStore`, `Readable(C)` within `C`);
what such a mixture would be is told by `DiskStore`, whatever the session. `IdeChannel` and `AhciPort` are the level below: their `ReadsTellTheTruth`
and `SectorsAsWritten` are what `DiskStore` takes from the driver, namely that a
write which returned 0 is seen by later reads, and that a write which failed left
the old or the new sector (`WriteFails`). That holds only while no wait has timed
out (section 6); `DiskStore` inherits the condition.

`FurDesktop` EXTENDS `FurShell`: a step of the terminal is a step of the shell over
the same `nodes`, `stored` and `kept`, and the programs of the desktop use the
operators of `NodeTable` and the disk outcomes of `FurShell`. `KateEditor` shows
that the keys of the editor make any text that fits the buffer, so that
`FurDesktop` types a text in one step (`Type`). `Installer` EXTENDS `NodeTable`
for the files it makes, and writes them by `SaveWorks` and `SaveFails`, what
`ImageStore` lets a save do. `kernel_main` is one branch: a machine started from
the installer ISO is `Installer`, any other is `FurDesktop`.

### State and actions against the code

**DiskStore.** `view` is what a read of the disk returns, `platter` what survives
a power loss; `pc`/`idx` is the place in the loop of `disk_save_fs`. `BeginSave`
runs up to the first write, `SaveHeader` and `SaveSector` are one
`ata_write_sector` each (header first, `disk.c` 270), `WriteFails` the early
returns, `SaveReturns` the discarded flush and the return. A load only reads, so
it is one step, with one disjunct per return; `LoadError` includes an image without
the magic, which `fs_deserialize` refuses before it touches the table, `LoadRootless` is
its return with the table already wiped. `Destage*` is the drive, `Crash` and `PowerOn`
the power. Of a payload sector the model knows the sum of its bytes (`ByteSum`), which
is all `checksum_bytes` sees of it, and what `fs_deserialize` looks for in the first one
(`Marked`, `RootMarked`). Different sectors may have one sum, and a sector of zeros has
the sum 0. `cands` is history: what a power loss may bring back.

**NodeTable.** A path is the sequence of its tokens. `Resolve` folds the tokens
with `Walk`, `HomeOf` is `resolve_parent_and_leaf`, `AllocNode` the lowest free
slot, and `RemoveNode` leaves in the slot what the code leaves there and what can
be read afterwards through a stale `shell_cwd`: the kind and the parent.
`MakePath` is bounded by the number of slots, as `fs_make_path` is.

**FurShell.** `nodes`, `cwd`, `phase`. One command is one action; its guard is the
command's permission and existence checks, so that a refused command is a
stutter. Seeding and installing are one step per created entry (`PlantNext`),
since a reset may come between two. `DiskLoad` has two outcomes: an image without a
root has emptied the table by the time it is refused, and `shell_cwd` stays. `Reset` is
a reset or a power loss. `kept` is history: the table of the last save, as long as it
returned 0 and was not lost with the power before a flush.

**FurNetwork.** The five static variables; one action per command.
`SyncStateWithPackages` is the trailing call of every `apt` command. `ColdStart` sets
what the kernel starts with; `WarmReset` keeps the link and its name, which lie in
`.bss` (section 6), and sets the rest, which the boot loader copies anew.

**IdeChannel.** `drive` holds BSY, DRQ, ERR and the command in progress of each
drive, `sel` the drive that answers register accesses. `WaitReady`, `WaitDrq` and
`WaitDone` are one look at the status each; the transfer of 256 words is part of
the look that finds DRQ. `Probe` and `Settle` are `ide_probe_device`. `Return`
checks nothing: it records in `expected` what a caller may now rely on.

**AhciPort.** `ci`, `tfes`, `cr` and the drive's BSY are the registers; `job` is
the command the drive has. `WaitSlot`, `WaitTaskFile`, `WaitCompletion` are the
three waits of `ahci_issue`; `SetUp` is `ahci_setup_port`. A `Complete` of a
command given up moves data all the same.

**Keyboard.** A byte is a code and whether its high bit is set; prefixes have it
set, which is how the code treats them. `TakeByte` is one round of the loop, with
the branches in the order of the code. `typed` is history: the keys pressed and
not returned yet.

**Console.** `tty` is the screen and the cursor. `Prompt`, `Type`, `Erase` print a
character at a time; `shown` is what the line buffer holds, after the prompt.

**KateEditor.** `buf`, `pos`, `top`, `mod` are `kate_buf`, `kate_pos`,
`kate_vscroll`, `kate_mod`. An action is one key and the draw after it, since the
loop draws before it waits. `LineOf`, `ColOf`, `LineStart`, `LineEnd` are the
helpers of the same purpose; `Window` is what the drawing loop paints, `RowStarts`
the variable `byte` of that loop.

**FurDesktop.** `app` is the program that has the screen: `run_desktop` runs one at
a time. `draft`/`mod`, `host`/`zone`/`editing`/`changed` and
`folder`/`open`/`content` are the static variables of editor, settings and file
manager. `available`, `found` and `copied` are what decides whether a save from
the desktop reaches the disk: the selected index, the driver's list, and whether
the kernel on the disk is a copy of a running installer, whose `.data` already
holds an index. `PowerCycle` finds memory zero, `WarmReset` what was there, and
`WarmResetAtLogin` what a login leaves that does not get to its end: a table that
`fs_init` has cleared in part (`Cleared`), an empty one before, in or after the scan,
which empties the list of disks first, or one that `fs_deserialize` has copied in part
(`Copied`). `origin` is history: whether the table is that of a cold start, of a login
cut short, of a seed or of an image. `View` makes a path as `fs_make_path` does, with
its check of the 80 bytes there are for it (`PathFits`); the failure is ignored by the
code, so `View` then shows any file or none.

**Installer.** `stage` is the argument of the loop in `installer_run`; each stage has
one action per way out of it. `wiz` is `struct wiz`, `selected` the disk of
`ata.c` and `disk.c`. Within stage 7, `step` and `lba` are the place in
`disk_install_system` and in what follows; `WriteSystem` is one sector, `Format`
and `Save` one `disk_save_fs` each, `Configure` one call of `stage_install` into
`fs.c` (`Plan` lists them). Resets are `PowerOn`, which is always possible.
`agreed` and `cut` are history.

## 3. Runs

| run | what it shows | bounds |
|---|---|---|
| `disk` | a load takes nothing but what is made of the images written since the last flush and has the sum of one of them (`LoadReturnsCandidate`), a save that returned 0 reads back whole (`SavedIsReadable`), a flushed image survives whole (`FlushedImageSurvives`), and the store implements `ImageStore`; with failing writes, failing flushes and power losses at every step | 2 payload sectors, 3 images, two of them with parts of one sum and one without a root, 2 saves, 2 faults, 2 power losses, IDE and AHCI |
| `shell_tree` | names are unique, `pwd` leads back, and the commands behave as operations on a tree of paths | 4 free slots, filled by a seed of three nested directories and a file; 7 paths, root |
| `shell_disk` | the next session starts from the saved table, unless power went before it was flushed (`SessionsResume`), and what a disk brings back is a table that was written to it (`ImplementsPathTree`) | 1 free slot, 4 paths, user debian, 2 saves, 1 fault, blank disk or one of the older format |
| `network` | the two reports of the link agree, a removed manager leaves nothing | 5 packages, 3 access points |
| `installer` | the accounts installed were confirmed (`AccountsSettled`), a disk boots one whole release or none (`WholeKernel`), "complete" is true (`CompleteMeansInstalled`), only the disk of the summary is written (`TargetIsShown`), and the installation ends | 2 disks: old release and blank, or too small and old release; kernels of 3 and 2 sectors; 5 usernames, 2 passwords, 3 hostnames; 2 starts |
| `desktop` | an editor without the star shows what is in the file and on the disk, settings read back, the file manager shows the file selected, and only tables of a whole login are saved (`SavesFollowALogin`, with the one case it lets through) | 5 slots, empty disk or one with a file for `/etc`, 1 command, 2 saves, 1 fault, 1 reset or power cycle; paths of 16 bytes |
| `editor` | the window shows the text and the cursor (`WindowShowsText`), and the keys edit lines (`ImplementsTextLines`) | 2 letters, buffer of 5, window of 2 x 2 |
| `ide` | reads return the sector asked for, sectors hold what was written, no drive is commanded while one is busy, calls fail exactly for errors (`CallsFailOnErrors`), calls and the scan return | 1 sector per drive, 2 contents, 2 polls; two disks, one disk, or a disk behind or in front of a packet drive |
| `ahci` | reads bring their sector, sectors hold what was written, idle buffers are quiet, calls return | 2 sectors, 2 buffers, 2 contents, 2 polls |
| `ahci_identify` | *violation*: no AHCI disk is ever identified | 1 sector, 1 buffer |
| `console` | the echo is the line in the buffer; the frame is never written | 3 columns, 3 scrolling rows, prompt of 2, lines of 4 |
| `keyboard` | keys come back in order and unchanged (`KeysAsTyped`); with nothing pressed and nothing queued, no key and no modifier is left over (`NothingLeftOver`) | 6 keys, 4 bytes of queue |

Why the bounds are enough. `disk`: tearing needs two images and a sector that was
written and one that was not. The second sectors of two images have one sum, so a load
takes a mixture of them; the third image has no root and ends with zeros, and there is
an unwritten sector that with a part of another image has its sum, so that all returns
of a load are reached. Two losses are a crash during the recovery from a crash. `shell_tree`: the seed fills the table. The session can
stand in the innermost directory, remove it, and make a file two directories above:
the file gets the slot of the removed directory, its path no longer leads where it
led, and its text goes to the file of the seed. A table with fewer slots does not
show that. The other paths are the ones the code treats specially (empty, `.`, `/`, a
name too long) and the outermost directory. All three properties are proved for
every size of the table and every set of paths. `shell_disk` needs one entry to
tell a saved table from a fresh one, and two saves because an installation makes
two. `ide`: the two drives may hold different sectors, so a command that reaches the wrong one is seen; two polls
let a wait succeed at once, succeed late or time out. `ahci`: two sectors and two
buffers, so that the late completion of one command can hit another's buffer.
`console`: a prompt and line of six characters span three rows of three columns,
so lines wrap, scroll and are erased across a row boundary. `keyboard`: a shifted
arrow needs four bytes; a fifth no longer fits. `installer`: the old kernel is
longer than the new one, so that a broken installation leaves a boot info that
names sectors of both; two starts give one broken installation and one that heals
it, or two on different disks; the usernames are an ordinary one, none, and three
paths (the directory above, a file the installation makes, an entry of a directory
that is not there). `desktop`: root, `/etc` and the three files fill the five slots,
so one more entry made in the terminal leaves no room for the last of them, and
one with the name of a file can be a directory; the path of one of the two files of
`/etc` fits the viewer's buffer and that of the other does not; two saves let one
program save after another, one reset lies between them. `editor`: five characters make up to
six lines in a window of two rows, and lines longer than its two columns.

Deadlock is checked in every run but `installer` and `desktop`, where the machine
halts, at the end of the installation or at a shutdown, and the starts that the
bounds allow are used up. Elsewhere the user, the drives or a reset can always do
something.

The type invariants of `DiskStore`, `FurShell`, `IdeChannel`, `AhciPort` and
`KateEditor`, the untouchable root (`RootStays`) and the visible cursor
(`CursorIsSeen`) are in no run of their own: they are proved for every instance
(section 4).

Every property has a mutant, a plausible bug of the definition it guards, under
which its run finds it violated (`PROJECT.json`, "mutants"); mutated forms stand
beside the originals and say so.

### Fairness

`DiskStore`, `FurShell`, `FurNetwork`, `FurDesktop`, `KateEditor`, `Console` and
`Keyboard` assert safety only and assume no fairness. `IdeChannel` and `AhciPort`
assume weak fairness of the driver's own steps, `WF_vars(Driver)`: once called it
is the only thing the processor runs, until it returns. Users are given none,
drives and controllers neither; `CallsReturn` holds whatever the hardware does,
because every wait counts its attempts. `ScanReturns` is different: the wait for
BSY in `ide_probe_device` has no limit, so it holds only if the drives answer, and
states that fairness as its premise (`DrivesAnswer`). `Installer` assumes
`WF_vars(Install)`: after the confirmation `stage_install` and what it calls run to
the end without waiting for a key, and the sectors they write come back by
`CallsReturn`. The wizard is given no fairness, since it waits for the user;
resets are never forced. `InstallationEnds` needs no more.

## 4. Proofs

Eight modules hold theorems, checked by TLAPS for every value of the constants.

**`TerminalProofs`** is about three components that share no state.

*Console.* `EchoIsTheLine` says of the few cells before the cursor what no step
establishes by itself: a character may wrap the cursor to the next row, or scroll
the whole viewport under it. `ConsoleInv` states it by position. `Pos(t)` counts the
cells of the viewport from its first row to the cursor; `Echo(t, s)` says that the
`k`-th cell before the cursor holds the `k`-th last character of `s`. Printing adds
one to the position and to the line; a scroll takes a row's width from every
position at once, and `ConsoleAssumption` (prompt and line fit the viewport without
its last row) keeps what is pushed out from being part of the line; backspace goes
back by one, over the edge of a row too. Theorems: `ConsoleTypeCorrect`,
`EchoStandsThere`, `FrameStays`, for every screen, window, prompt and line.

*Keyboard.* `KeysAsTyped` and `NothingLeftOver` speak of the moment a byte is read or
the queue is empty; between, a key is half sent. `KeyboardInv` says what the bytes
that wait are going to do: there is a course of the driver's flags through them
(`Course`), from flags that are at least the present ones (`Begins`), in which each
key it returns is the next of `typed` with no modifier that was not held, to an
end at which all of `typed` is returned and no prefix and no modifier is left over
(`Ends`). A press, a repetition or a release appends whole sequences of bytes and
extends the course; reading a byte takes its first step; `keyboard_init`, which
clears the flags, only makes them fewer. Bytes lost to a full queue are `overrun`,
after which modifiers may stick: the model's properties say so. Theorems:
`KeyboardTypeCorrect`, `NothingStaysBehind`, `KeysComeAsTyped`, for every set of keys
and every length of the queue.

*Packages and network.* `NetworkInv` is the conjunction of the type invariant and
both properties, and is inductive: `ReportsAgree` needs the types, `RemovedIsDown`
needs that no command works without the package. `NetworkInvariant` proves it
action by action; `ReportsDoAgree` and `RemovalIsComplete` follow.

**`DiskStoreProofs`.** The properties are not inductive: that the disk holds the
saved image when `disk_save_fs` returns depends on what each step of the loop has
left in `view` and `platter`. `IInv` adds that a header on the disk was written for one
of the candidates and that every sector behind it is of one of them (`Known`), that the
sectors up to `idx` are those of the buffer while a save is running, that the whole
image is in `view` when it has returned, and in `platter` when it was flushed. Then:
`TypeCorrect`, `LoadIsWhole`, `SavedReadsBack`, `FlushedSurvives`, and
`DiskRefinesStore`, that every step of `DiskStore` is a step of `ImageStore` or a
stutter.

Nothing is assumed of the checksum. The sums of sectors are any natural numbers, zero
among them, and any two sectors may have one. What can be proved of a load is
therefore what the code can promise: the image it takes is one of `Readable(cands)`, made
of sectors of the candidates, with the sum of one of them; where the sums tell, that is
a candidate itself. The other two properties need no such weakening, since an image
that was written to its end reads back whatever collides with it. `StoreAssumption`
types the constants, and says that tables begin with the magic and that a fresh one
has a root, which is what `fs_serialize` and `fs_init` write.

**`NodeTableProofs`.** `Neat(t)` says that a table has its type, no two entries of one
directory have one name, and every name fits a node; `Sane(t)`
adds an intact root. They are two because a cold start finds a table of zeros, and a reset in the middle of
a login a part of one, which are neat and rootless, and the desktop writes to them. One lemma per operation shows
that it keeps a table so (`CreateKeeps`, `WriteKeeps`, `RemoveIsSane`,
`SettersAreSane`, `DecodeIsSane`), for any current directory, stale ones included.
`CreateAdds`, `WriteAdds` and `FillAdds` say what a table gains by an operation,
including that nothing else changes. `PathLeadsBack` is about `fs_make_path` and
`fs_resolve`: the names collected on the way from a node up to the root, resolved from
the root, lead down the same nodes. The walk up has no known length; the proof takes
the least number of steps that reaches the root and shows, step by step back from
there, that the token at each place leads to the node it was taken from, which is the
only one of its name there. `DepthIsSmall` says that the bound of the loop in
`fs_make_path` never cuts a path short: a walk that reaches the root has met no slot
twice, so it needs fewer steps than there are slots.

The last part of the module is about the table as a tree of paths, `TreeOf(t)`: the
paths that lead from the root to an entry, and what stands there. Tables that agree
on the entries a walk to the root passes give it the same path (`SameWalk`). A new
entry below a directory of the tree adds one path to it, or none if its name is `.`
or `..` (`AddedHangs`, `AddedTree`); a removal takes one away (`RemovedHangs`,
`RemovedTree`); a new text changes one (`FilledTree`); an entry below anything but a
directory in use leaves no tree, even if it gets the very slot it hangs below
(`AddedAstray`). All this needs that different entries of the tree have different
paths (`PathsDiffer`), and that what `fs_create` made is what `fs_resolve` finds
(`MadeIsFound`).

**`FurDesktopProofs`**, of sessions. `IInv` says that the table in memory is sane, that every table the disk
may bring back (`cands`) is well formed, the one it holds among them, and that the kept
table is the stored one; that a power loss before a flush leaves nothing kept is what
makes `SessionsResume` provable.
Theorems: `SessionInvariant`, `SessionsDoResume`, `TypeCorrect`, `RootIsKept`, and
`PathsDoLeadBack`.

`SessionRefinesTree` is the refinement of `PathTree`: what a session does to the table
it does to a tree of paths, and to the current directory as a path of that tree.
`Edits` names the changes `PathTree` allows a command. `RemoveEdits`, `CreateEdits`,
`WriteEdits` and `SameEdits` show that each command makes one of them, from any current
directory. For `fs_write` this needs a case of its own: it resolves its path twice, and
the entry made in between may change where the path leads (`MadeAndFilled`).
`EditMaps` turns an edit into a step of the tree; `GoStep`, `SaveStep`, `WipeStep` and
`LoadStep` are the commands that move the session, save, empty or load. The induction
needs `NamesOK` beside `IInv` (`TreeInv`): no directory is named `.` or `..`, in memory, on
disk, or in what seeding has yet to make. An entry with such a name is always a file,
since `mkdir` of a path that ends in one finds it there or finds no parent
(`MissingIsProper`). `ShellAssumption` asks the same of the constants: the directories
that `shell.c` and `installer.c` make have ordinary names, and an image found on a disk
was saved by such a session.

Of the desktop. `OnlyLoginsAreSaved` states `SavesFollowALogin`. The programs save
whenever `disk_available()` says so, which in a kernel copied by the installer it does
from the start; what holds them back is the driver's list of disks. `OriginOK`, which is
inductive by itself, says that the list is empty as long as the table is the one of a
cold start, because only `shell_run` fills it, after `fs_init`; and that after a login
cut short a disk is selected only if the kernel is a copy, which is the case the
property lets through. `DInv` is the inductive invariant
of the rest. `MachineOK`: the table is neat, and sane unless it is the one of a cold
start or of a login cut short (`TableOK`), and with it the disk and the session as above. For the editor and
the settings, that what the user was told is saved is in the table: `WriteAdds` gives
it for the file written, `Settled` for the other file written before it in the same
save, which must outlast the second write, be a directory in the way, or be missing
because the table is full. For the file manager, that the folder shown hangs from
the root by directories in use (`Hangs`), which entering a folder and going up
preserve and which `DepthIsSmall` turns back into a path, and that what it shows is the
file selected if that path fits its buffer (`FilesOK`). Theorems:
`DesktopInvariant`, `DesktopTypeCorrect`, `EditorIsTruthful`, `SettingsDoReadBack`,
`ViewerDoesShow`. `DesktopAssumption` asks for nothing the code does not have: the texts
a user can type are texts of files, and the four names in the source fit a node.

**`InstallerProofs`.** `IInv` is `Shapes` (stage, answers, selection and disks have
their type), `Settled` (while the wizard is past a stage, what
that stage settles has been settled: the account in `agreed`, the disk selected)
and `Written` (in the middle of the system area every sector before `lba` is new,
the disk being written is `cut`, and every disk that is not is whole). It gives
`AccountsAreSettled`, `KernelIsWhole` for any number of disks and kernels of any
sizes, and `OnlyTheTargetIsWritten`.

`CompleteIsInstalled` needs what the fifteen calls into `fs.c` have made, none of which
looks at a result, with a username among their paths. `Planted(t, k, w)` says what the
table holds after `k` of them: it is sane, in use are the first slots only, the
directories of the system are where they were made, hostname and timezone are absent
before their call and there after it, and so is the home of an ordinary name. `JInv`
(`Typed` and `Configured`) says that the calls to come are the last ones of the plan
and that the table is `Planted` by those before. Each call is one lemma about
`CallResult`, from the lemmas of `NodeTableProofs`. Theorems: `ConfigurationInvariant`,
`InstallerTypeCorrect`, `CompleteIsInstalled`. A username may be any path; where it ends
in the name of a file of `/etc` (`Takes`) the property excepts that file, because the
code does. `InstallerAssumption` asks that the table has more than 15 slots
(`FS_MAX_NODES` is 128) and that the names and texts of the system are among those of
the model.

**`KateEditorProofs`.** `TypeCorrect`: every key keeps the position within the text
and the text within the buffer. `CursorIsSeen`: after every draw the line of the
cursor is in the window. Both rest on bounds of the line arithmetic
(`LineBounds`, `ColBounds`, `StartBounds`, `EndBounds`). `WindowIsTheText`: each row shows
the line it stands for. The loop of `kate_draw` goes on at the byte where the row
above ended, the property counts lines from the start of the buffer; `NextStart` shows
that line `n + 1` starts behind the newline that ends line `n` (`StartIs`: the start of a
line is the byte by which `n` newlines have been passed), and `RowsAreLines` follows
the loop.

`EditorRefinesLines` is the refinement of `TextLines`. The code has no lines, it counts
newlines afresh for every key; so the proof says what counting gives when a text is
put together. `SecondPart` and `StartsInParts`: in `x \o y` the newlines of `x` are
counted first, and the lines of both parts begin where they began. `LinesOfBoth`: the
lines of `x \o y` are those of `x` and of `y`, the last of the one and the first of the
other made one (`Glue`). With the text parted at the cursor this gives the lines above,
the line's two halves and the lines below (`CursorStands`); with a byte of its own
between the parts, how the cursor stands on either side of it, whether the byte is a
letter or a newline (`ByteDoesStand`). Each key that inserts, removes or passes a byte is
then one of these cases (`InsertRefines`, `BackwardRefines`, `ForwardRefines`), the keys
that go to another line or along one follow from `PlaceInLine` (`ByLineRefines`). One key
is a stutter: down, behind a last newline, leaves the cursor where it is.

**`IdeChannelProofs`.** What a read returns depends on which drive is selected and
on what the other one is doing. `IInv` has two halves. The first holds always:
what the driver does in each place (`Places`), that only disks are registered
(`Devices`), that a drive that reports an error has dropped its command
(`DrivesOK`), and that a drive that is not selected is at rest (`OthersRest`), from
which `OneTalks` follows. The second, `Truth`, holds while no wait has timed out:
no drive works on anything but the request of the driver (`InStep`), a write that
is about to return has arrived (`Arrived`) and every other sector is as the calls
before left it (`Kept`). Theorems: `ReadsAreTrue`, `SectorsAreWritten`, `OneTalks`,
`TypeCorrect`, and `ErrorsExplainFailures`, for every wiring. Its invariant `Healthy`
follows the error a packet drive keeps from the scan (`PacketErrors`, `SlaveLast`): as
the slave it stays selected, and every call fails; as the master it is left, and none
does (`NoPacketLast`).

**`AhciPortProofs`.** The port stays truthful even after timeouts, because
`ahci_wait_slot_free` waits for the slot. `IInv` says what the drive can still be
working on (`JobOK`: the driver's command, or one given up, whose sector is then
expected to hold anything), that a read that completed has brought its sector
(`Brought`), and, while no read was given up, that a write takes what its caller
put in the buffer (`Truth`). Theorems: `ReadsAreTrue`, without any condition on
timeouts, `SectorsAreWritten`, `BuffersStayQuiet`, `TypeCorrect`.

Model-checked only:

* `CallsReturn`, `ScanReturns`, `InstallationEnds`: liveness under fairness, which this
  prover does not do.
* `ahci_identify` is a run that finds a violation; there is nothing to prove.

## 5. Findings

* **`ahci_identify`** (`ata.c` 614, 730-742). `ahci_issue` refuses a device that is
  not `present`, and `ahci_register_port` sets `present` after `ahci_identify`:
  IDENTIFY is never sent and each AHCI disk has the default capacity, so the size
  check of the installation passes for any disk.

Three more disagreements have no run of their own; the first and the last can be
reproduced with a change of one configuration:

* `ata_flush` sends nothing to an AHCI disk (`ata.c` 1073), on the ground that DMA
  writes are complete when they return. The drive's write cache is not thereby
  empty, and `disk.c` 283 promises "fully persisted". In `MCDiskStore.cfg` set
  `Interfaces = {"ahci"}` and check `SaveOkIsPersistent`.
* The wait for a ready IDE drive looks at the drive selected last (`ata.c` 308).
  After the scan that is the slave; a packet drive there shows ERR, and every call to
  a healthy master fails. `CallsFailOnErrors` says so, the run `ide` has the wiring, and
  it is proved.
* A channel that is not there reads 0xFF, BSY never clears, and the scan does not
  return (`ata.c` 391). Set `Wirings <- NoController`, with deadlock not checked:
  `ScanReturns` is violated.

## 6. What the models say about the code that a reader may not expect

* A flush that fails is ignored (`disk.c` 284): `SavedIsReadable` holds, durability
  does not. `FlushedImageSurvives` speaks of flushes that were carried out, and
  `SessionsResume` of power losses after one; an AHCI disk is sent none.
* The checksum is a plain sum of bytes. A mixture of two images with the sum of one of
  them is loaded as if it were whole (the run `disk` has one): an image that was torn
  by a crash is not always refused.
* A table without the magic leaves memory alone when it is refused; one without a root
  has emptied it, and `disk load` then reports a failure with `shell_cwd` still where it
  was.
* `rm` may remove the current directory. `write` and `nano` then hang entries below
  a free slot; once the slot is reused, the session stands in another entry,
  possibly a file, and a directory made there can be its own parent. `PathTree`
  names this as its one way out (`Nowhere`, `Lose`, `Stray`): unique names and
  the root are kept even then, and that is proved.
* From a removed current directory, `write` may put its text into another file than
  the one it names (`fs.c` 403-407; `Slip` in `PathTree`). With the table full and the
  session in `/a/a/a`, which it removes, `write ../../b x` makes an empty `/a/b` in the
  slot of the removed directory; the current directory is then that file, so the same
  path, resolved again, leads to `/b`, and the text goes there. Without a `/b` it is
  lost.
* `nano .` in a directory creates an entry named `.` that no path reaches and that
  keeps its directory from being removed.
* A format or an installation whose save fails has emptied the table and leaves
  `shell_cwd` where it was.
* On IDE a read that timed out may offer its sector to the next command, since
  `ide_wait_ready` does not look at DRQ; and ERR stays in the status of a drive, so
  that after one error every call fails until the next scan. `ReadsTellTheTruth`,
  `SectorsAsWritten` and `CallsFailOnErrors` state these conditions.
* On AHCI a read that timed out may arrive in a buffer that is being saved by
  then; `ahci_wait_slot_free` does keep it from being taken for the answer to
  the next command, and that is checked.
* Releasing one of two held shift keys clears the one flag: a held shift may be
  lost, a shift that was not held never appears.

Installer:

* `disk_install_system` writes boot sector and boot info before the kernel: an
  installation broken off leaves a disk that boots a mixture (`cut` names it).
  Installing again heals it, whatever release was there.
* The flush at the end of `disk_install_system` is ignored, as in `disk_save_fs`.
* The username is used as a path. `..` makes no home, `a/b` neither, an absolute
  path may name a file of the system; the image stays sound, and
  `CompleteMeansInstalled` promises a home for ordinary names only.
* The passwords are confirmed and then used nowhere.
* `README.md` 59 says to type `INSTALL`; `stage_summary` takes `YES` or `yes`.
* The installer offers any disk, but a session loads from the disk of index 0,
  which `disk_init` selects: a system installed on another disk boots and does not
  find its files.
* The boot sector loads up to 1920 sectors from 0x10000 on; a kernel of more than
  1152 sectors would run into video memory at 0xA0000.

Desktop:

* Only opening a terminal loads the filesystem, although `README.md` 63 says that
  it is loaded after reboot. Until then settings and file manager show an empty
  table, what the editor saves is lost when a terminal is opened, and opening one
  again in live mode discards what the session before it made.
* `boot.S` does not clear `.bss`, nor does the boot sector of an installed system (GRUB
  does, before it enters the kernel): a warm reset finds the old table and the old list
  of disks, and the programs of the desktop then save that table. As a rule it is one
  that was loaded or seeded (`origin`). But on a kernel that the installer copied to its
  disk, whose `.data` has a disk selected from the start, a reset in the middle of a
  login leaves a table that is empty, or copied from the image in part, and a list in
  which the disk may be found: F2 in the editor or the settings then replaces the whole
  image by that table. `SavesFollowALogin` lets this one case through, because the code
  does, and refuses every other; after a cold start nothing is saved before a login.
* The link and its name (`wifi_connected`, `wifi_ssid`) survive a warm reset in the same
  way; the manager and the radio, which are `.data`, are on again, so the two reports
  still agree (`WarmReset`).
* The editor always starts empty and saves to `/untitled.txt`: each save replaces
  the text of the session before.
* F2 at the prompt for unsaved changes leaves the editor whether or not saving
  worked; ESC in the settings does not ask; a failure of `disk_save_fs` is shown by
  neither.
* An empty hostname does not read back: it is taken for no hostname.
* The file manager finds a file by its path in a buffer of 80 bytes and does not look
  whether it fitted: of a path of 79 bytes or more the buffer holds a part, and what the
  stack held, and the file shown is any or none (`View`). `ViewerShowsSelection` promises
  nothing of such a path.
* A file below an entry named `.` or `..` (`nano .` makes one) has a path that leads
  elsewhere, so the file manager may show another file; `PathsLeadBack` and
  `ViewerShowsSelection` except such names (`Addressable`).
* `nano` of the shell erases a newline as if it were a character.

## 7. Not modelled, and why

The byte layout of the image, the text of messages, colours and drawing: data that
no property looks at. Splitting a command line into arguments, commands that only
print, and `parse_u32`, which wraps at 2^32, so that `chown 4294967296` names root:
the shell's actions take the number that was parsed. The screen of `nano`. PCI
enumeration and the device lists: a run fixes what is attached. Of the desktop, the
pages without state: system monitor, About, the launcher's menus, the number of
the virtual desktop. `boot.S` and the boot sector set up the machine in assembler;
only which sectors are loaded and what a reset leaves in memory are modelled.
`kstring.c` is used by its meaning, `serial.c` is debug output, the `Makefile` has
no run-time state.

In `FurNetwork` and `FurDesktop` a step is a command or a key that was handled: a reset
within one, say between the two assignments of `nmcli connect`, is not taken apart, but
for the login, which `WarmResetAtLogin` looks into (nodes, and the root that `fs_init`
makes, are taken whole). Mixtures of images with an equal sum are in `DiskStore` only
(section 2).

In `Installer` a write that returned is on the disk (`DiskStore` has the cache), and
the texts of `/etc/passwd` and the like are one content. In `FurDesktop` the
terminal has only the commands that make tables the other programs must cope
with; `FurShell` has them all.

Bounded counters (`saves`, `faults`, `crashes`, `boots`, `commands`, `resets`) exist
for TLC; in the proofs their bounds are arbitrary natural numbers.

## 8. Plan

Done: image store, filesystem and session, with their refinements; network, IDE
channel, AHCI port, console, keyboard; installer, desktop, editor and its
refinement; proofs of every invariant, every action property and all the refinements
the runs check, so that only liveness rests on TLC alone.

Next:

* `parse_u32` and the other numeric parsers of the shell, with their width, as
  operators checked against the numbers they should denote.

The project keeps to twelve runs. Should a new module need one, `network` gives
way first, since both its properties are proved.
