# Verification of ccontrol

ccontrol takes the place of `cc`, `c++`, `ld` and `make`. Each call reads
`~/.ccontrol/config`, decides whether ccache and distcc take part, waits for a
lock so that a machine is not flooded, and then runs the real program, which
may call ccontrol again. There is no daemon: the processes of one user meet
only in the kernel (a SysV semaphore, record locks on the config file, pipes)
and in what a child inherits (its environment and its descriptors). What is
hard to test is therefore the interplay of many short-lived processes; that is
what is modelled first.

The code is in `src/ccontrol-1.0/`; file names below are relative to it.

## 1. Inventory

| Part | State it keeps | Operations | Hard behaviour | What makes it correct |
|---|---|---|---|---|
| slow lock, `ccontrol-lock.c` (`make_semaphore`, `grab_sem`, `drop_slow_lock`) | one semaphore per user, its SEM_UNDO adjustments, byte 0 of the lock file | create, take, drop; process exit | creation races; death at any point; exec keeps the unit | initialized once, no unit lost or made, everybody is served |
| lock selection, `ccontrol-lock.c` (`grab_lock` and the undo functions) | `CCONTROL_LOCK`, record locks on bytes | slow, fast and make locks, "already got it", undo | inherited environment, nested makes, sections that disagree | local jobs bounded, no deadlock, undo restores |
| `main`, `ccontrol.c` | `nodistcc`, `noccache`, `ccache_then_distcc`, the section, the stat, the pipe | read, decide, lock, restat, exec or fork, wait, retry | config edits while it sleeps, distcc failing, ccache calling back through a pipe, signals | every command ends; the lock is held while it is needed and not longer |
| arguments and environment, `ccontrol.c` (`adjust_args_and_environment`) | argv, environment | `-j`, `add make`, `add env`, ccache/distcc prefix | fixed-size argv; order of `add env`; retry | bounds, order |
| identification, `ccontrol-identify.c` | none | `what_am_i`, `can_distcc` | options at the end of argv | agrees with what distcc can do |
| config parser, `ccontrol-parse.c` | position in the file, section | tokens, sections, includes | white space, file ends, files that cannot be opened | one reading of each line; sections override in order |
| utilities, `stdrusty.c` | buffers | `int_to_string`, `suck_file`, `fatal` | seven digits; buffer growth | exact for what callers pass |
| keyword tables, `keywords.c`, `extensions.c` | none | gperf lookups | none (generated) | - |
| applet, `gui/gccontrol.py.in`, and `ccontrol-init` | the config link | replace the link | unlink and symlink are two steps | a config can be read at all times |
| build, packaging, test suite | - | - | - | - |

Interactions: `main` calls the parser (`read_config`), the identification,
`grab_lock`, and then exec or fork. A child finds its parent's lock in
`CCONTROL_LOCK`. With ccache and distcc both set, `main` forks ccache with
`CCACHE_PREFIX=ccontrol` and the write end of a pipe in `CCONTROL_LOCK_FD`;
ccache calls ccontrol once to preprocess and, on a miss, once to compile, and
the second one writes a `#` so that the first drops the lock. The applet
changes the config under all of them; `file_altered` makes a process that
waited for a lock start over.

The hazards of this code, each at its line, are listed in `PROJECT.json`.

## 2. Plan

1. `SlowLock` with `CountingLock`: the semaphore, call by call; proof that it
   is a counting lock. *Done.*
2. `Ccontrol`: `main` and `grab_lock` of many processes, the programs they run
   and the config file that changes. *Done*, and its safety proved;
   `CcontrolOrder` says under which conditions.
3. `Config` with `ConfigText`: the parser, token by token, against the meaning
   of the files line by line. *Done*, and that it stays in its texts, reads
   none twice and keeps its settings consistent is proved; and, for the files
   that `ConfigReading` calls legible, right or wrong, that the settings are
   what the files say and that exactly the wrong ones are rejected.
4. `Profiles`: the config link (applet, `ccontrol-init`), `suck_file`, open
   and fstat of `main`, `file_altered` with one-second times and a failing
   stat. Which content does a command that runs use, and how old may it be?
   *Done*, and its safety proved.
5. `CommandLine`: `main`'s own options, `can_distcc`, `-j`, the capacity of
   `new_argv`, `add env`, and both ways to begin again, each against what was
   typed and what the section says. *Done*, and its safety proved.

Abstract specifications: `CountingLock` and `ConfigText`. Theorems: the
inductive invariants of 1 to 5 and what follows from them. Left: a theorem
that what is printed can be read again (`PrintsWhatApplies`), as TLC finds;
several calls in `Profiles` that share locks with `Ccontrol`.

## 3. The modules

### SlowLock, CountingLock

`SlowLock` is one process per element of `Proc`, with a `pc` that names the
system call it makes next: `Lookup` (the first `semget`), `LockInit`,
`Create`, `SetPerm`, `SetVal`, `UnlockInit` (`make_semaphore`), `SemOp`
(`grab_sem`), `DropSlowLock`, and `Retry` for `main`'s `goto again`. The
kernel's side is a semaphore with a value, permissions and an adjustment per
process; `Vanish` is what it does when a process exits. Processes may lock
byte 0 of different files (`lock-file` gives a section its own) and may have
different `cpus`. A process may be killed before any call.

`CountingLock` says what is promised: at most `cap` holders, where `cap` is
fixed once. `SlowLock!Refinement` is the refinement mapping
`holders <- {p : pc[p] = "held"}`.

### Ccontrol

`proc[p]` is the process in slot `p`: the place in `main` (`pc`) or the
program it has become, its command and directory, its parent, its environment
(the five variables that matter), the pipes whose write end it has open, and
`main`'s locals. A command is a class: a compile that distcc can take (`cc`,
`cxx`) or cannot (`cclink`, which also calls `ld`), one with `-E` (`pre`),
`ld`, `make`, and anything `other`. A section holds what decides the control
flow. `locks` are the record locks, `semval`/`semadj`/`semcap` the semaphore and
`semmode` whether it is there and permitted. `make_semaphore` is three steps, as
a process may be killed, or come too early, between two of its calls; byte 0 and
the lookups are `SlowLock`'s matter, and the property `SlowLockUse` connects
the two modules through `CountingLock`.

`CCONTROL_LOCK` is a number here and a `char` in the code. `MaxDepth` bounds
how deep makes call each other, by 62: 'A' + 62 is the last `char`, and the
code has no guard there. `LockIsChar` says that below that depth the number is
always one that fits; `DepthIsChar` proves it.

Steps and code:

| Actions | Code |
|---|---|
| `Preprocess`, `TellOwner`, `TellNobody`, `Main` | `ccontrol.c:298-348` |
| `ReadConfig`, `NoName`, `Fstat` | `ccontrol.c:350-393` |
| `AlreadyGotIt` ... `CalledMyself`, `LockByte`, `CreateSem`, `SetPerm`, `SetVal`, `SemDenied`, `GrabSem` | `grab_lock` and what it calls |
| `Altered`, `Unaltered` | `ccontrol.c:395-404` |
| `RunExec`, `RunCcache`, `RunDistcc` | `ccontrol.c:406-439` |
| `ReadPipe`, `Collect` | `ccontrol.c:423-429` |
| `DistccReturned`, `DistccFailed` | `ccontrol.c:440-457` |

`grab_fcntl_lock` picks its byte before it sleeps, so picking and locking are
two steps: a process may sleep for a taken byte although others are free.
External are the programs (they start the commands `Spawns` allows, wait, and
end; ccache preprocesses and hits or misses; distcc works, fails with "no
host", or compiles locally when `DISTCC_FALLBACK` is not 0), the kernel
(fork, exit, wait, SEM_UNDO), the user and whoever edits the config.

Both ends of the pipe are inherited, and nobody closes the one to read from
(`ccontrol.c:414-422`). So a process that tells an owner who is gone gets no
SIGPIPE: its write succeeds and it goes on with its compile (`TellNobody`).

Definitions marked "Mutant" are not part of any specification; each is a
plausible mistake in the definition that follows it and shows that the
properties notice it.

### CcontrolOrder

Four conditions on the config file and the programs, and for each the invariant
that explains why the locks do their work there. It adds no steps; its code is
`Ccontrol`'s.

`Orderly`: no section has both ccache and distcc, only make calls make, and
nobody is killed. Then a slow lock has one line of processes behind it
(`LineInv`): `CCONTROL_LOCK=0` comes with the unit or from a parent that has
it, and only makes have several children. Each part is needed. The pipe of
ccache and distcc passes the unit on before the compile (run `flood`); a
script that inherits the slow lock and calls make gives `CCONTROL_LOCK=0` to
all compiles of that make, which then run in parallel on one unit; and a
process that is killed leaves children that believe in a unit that is gone.

`Ranked`: besides, distcc calls nothing and all sections have the same `cpus`.
Then a process that waits for a byte descends from makes only, each of which
has a byte of a lower range (`ByteInv`). Sections that differ in `cpus` have
ranges that overlap (run `mixed_cpus`); for a distcc that calls ccontrol see
the list in section 4.

`Counted`: besides, all sections lock in one file, and only make calls what
distcc can take. Then each byte has one owner, and each nested make and each
compile that waits for its distcc owns one (`HeldInv`). A compile that some
other program starts under its slow lock finds `CCONTROL_LOCK=0` and goes to
distcc without a byte of its own, so nothing bounds how many do.

`Layered` is apart from these three and leaves the sections free, also to
have ccache and distcc together: only make calls make and compilers (ccache
still calls ccontrol for its preprocessor and its compile), and nobody is
killed. Then one process stands between the `ccontrol` that reads a pipe and
whoever could write to it (`PipeInv`). With a distcc that calls ccontrol
(`Mistaken`), a section with ccache and distcc and seven slots, TLC finds
`PreprocessLocked` violated: once the owner has been told to drop the lock,
`CCONTROL_LOCK=0` is stale in all that the compile starts.

### Config, ConfigText, ConfigReading

`ConfigText` is what the files say to their author, after `ccontrol.1.txt`:
lines, one entry each; included files in the place of the `include`; of each
setting the last entry in a section that matches. `Config` is the code: a
stack of readers, one for each `read_config_file` and `read_section_file`
that is active, `peek_token` and what is built on it as functions of a text
and a place in it, and one action for each instruction, for the header and
the end of a section, the end of a fragment and of a file. `result` and `sec`
are the two `struct section`s of `read_config_file`. A text is a sequence of
lexemes (line end, run of blanks, `#`, brackets, `=`, words); which words are
numbers, what `~` stands for, which paths are directories, which section
headers match (`fnmatch`) and which lock files can be opened are constants.
Optional strings are sets of at most one element. `Turn` is one turn of the loop
of `peek_token`, which calls it until it returns a token. Only `resolve_path` and the
expansion of `~` are shared by the two modules.

`ConfigReading` adds no steps. It says which files are legible, and for
them the invariant that connects the two. It is `Follows`: the entries that have
been read and those left to the readers on the stack are together what the
files say, and `result` and `sec` mean the former; or `Rejects`: some line is
wrong, and the reading has failed or what comes next can only end it (`Doomed`).
`Legible` leaves out what the code reads otherwise than its author would:

- `Tidy`: each file ends with a line end, and blanks stand before a word or a
  comment or alone on their line (run `config_blanks`).
- `Spelled`: a line that is right has no path or name of a section that is a
  keyword or a number, which `peek_token` would give another type.
- `Misspelled`: the tokens of a line that is wrong are not read as another line.
  The code does not look for the end of a line: `verbose [ x ]`, or a `cc` before
  a line that begins with `= gcc`, is an error to `ConfigText` and none to the
  code. So no header or include stands inside a wrong line, and the next line
  begins with blanks or a word that continues none.
- `OfSections` and `OfEntries`: a file has its entries in sections of its own;
  a fragment is indented throughout and right, for it ends where it is not
  indented, at the second half of a wrong line too (`FragmentEnds`). After an `include` between sections the code no longer
  knows of the section before it, so an entry there is an error.
- `IncludesRight`, `Acyclic`: what is included, if it is there, is of the kind
  that belongs there, and does not include itself.

Which sections match, which settings are given, how often and in which order,
and how deep files include others is left open. `NoNesting`: no directory that
is given for ccache or distcc contains a directory of that name, because
`resolve_path` is applied to the same path at the end of every file.

`print_section`, what `ccontrol` prints when it is called alone, is at the end
of `Config`: `PrintsWhatApplies` reads the print again, with `ConfigText`.

### Profiles

One call of ccontrol and everybody who changes the config under it. The call
is `Open`, `ReadMore` and `ReadLast` (the reads of `suck_file`, with the size,
`max` and allocation of its buffer and the versions it has seen), `Fstat`, and
`Altered` or `Unaltered`. The files are inodes with a version, a length and
their times; profiles are names of inodes, and `~/.ccontrol/config` is a link
to a name. `Truncate`, `Extend` and `Finish` save in place, `Rename` replaces;
`AppletUnlink` and `AppletSymlink` are `set_config` of the applet; `InitMove`,
`InitCreate`, `InitLink` are `ccontrol-init`. A text that is not whole may, or
may not, be a configuration: `ReadLast` leaves it open whether the call dies.
A `stat` that fails leaves `st2` to the stack, so both decisions are possible.
`touched` and `raced` are history variables: they note that something changed
since the file was opened, and that it changed where `fstat` cannot tell.

| Actions | Code |
|---|---|
| `Open`, `ReadMore`, `ReadLast` | `ccontrol-parse.c:514-516`, `stdrusty.c:81-108` |
| `Fstat`, `Altered`, `Unaltered` | `ccontrol.c:364`, `ccontrol.c:395-406`, `ccontrol.c:218-225` |
| `AppletUnlink`, `AppletSymlink` | `gui/gccontrol.py.in:51-55` |
| `InitMove`, `InitCreate`, `Extend`, `InitLink` | `ccontrol-init:121-153` |

### CommandLine

One process, from the words typed to the program that runs. A word has a kind
(what the code can tell of it: `-o`, a source, an option it does not know) and
a text. `Restore` is `again_restore_args`, `Read` is `again` with everything
that decides about ccache and distcc, `Altered` and `Retry` are the two ways
back, and `Run` is `adjust_args_and_environment` with what follows it, as
values: the new `argv`, how far `insert_arg` writes, and the environment.
Where `insert_arg` needs more slots than `new_argv` has (`Slots`, `Room`) the
step is `Overrun`, and what follows is left open.
`read` is the section as the file has it, next to `sec`, which main changes.
`RoundInv` says of each place in a round which part of the environment and of
the section is still as it was.
Locks and processes are `Ccontrol`'s matter; each waiting is one step here.

| Actions | Code |
|---|---|
| `Preprocess`, `Compile`, `Begin` | `ccontrol.c:298-313` |
| `Restore`, `NoCommand` | `ccontrol.c:315-348` |
| `Read`, `Crash` | `ccontrol.c:350-393`, `ccontrol-identify.c` |
| `Altered`, `Run`, `Overrun`, `NoEquals` | `ccontrol.c:395-439`, `ccontrol.c:19-24`, `ccontrol.c:88-149` |
| `Retry` | `ccontrol.c:440-456` |

The modules that begin with `MC` give the constants values for TLC.
The type invariant of each module is checked as a part of its inductive
invariant (of `RoundInv` in `CommandLine`, of `ReadingInv` for `Config`).

## 4. What the runs show

| Run | Instance | Result |
|---|---|---|
| `slowlock` | 3 processes, 2 lock files, `cpus` 1 and 2, kills anywhere | one initialization, no unit lost or made, a counting lock; everybody is served unless the creator died half way (`Orphaned`) |
| `slowlock_denied` | one lock file, no kills | **violated**: a process that looks the semaphore up between `semget` and `IPC_SET` dies with "cannot decrement semaphore" |
| `locks` | 4 slots, make / nested make / compiles / links, distcc on and off by one edit | the inductive invariants of section 5 but `PipeInv`; the slow lock bounds local jobs, also when distcc fails; `CCONTROL_LOCK=0` is true; nobody holds and waits, or waits for an ancestor; fast locks bound makes per depth and distcc |
| `finish` | 3 slots, make and compiles, with ccache and distcc or distcc alone, a distcc that calls ccontrol again, kills of any compile and of what it has become, fair | every command ends, unless a death inside `make_semaphore` has left a semaphore without a value (`Stuck`) |
| `pipeline` | 4 slots; ccache with and without distcc, and distcc alone, by one edit; typed preprocessors, unknown commands that call others | the lock is held while ccache preprocesses; `PipeInv`; each change of the semaphore is lawful |
| `flood` | 4 slots, ccache + distcc | **violated**: after a miss, compiles that distcc refuses run without any lock |
| `mixed_cpus` | 3 slots, two sections with `cpus` 1 and 2 | **violated**: a compile waits for a byte held by its own make: deadlock |
| `stale_flag` | 3 slots, ccache + distcc, one edit to distcc alone | **violated**: `ccache_then_distcc` is still set, and distcc runs without `DISTCC_FALLBACK=0` |
| `config` | 3893 configurations: hosts, lists, numbers at their limits, paths, comments and blanks in every combination, files and fragments that include others | the settings are those that are written; exactly the faulty ones are rejected; no text is read twice, and every reading ends; all are legible, and `Follows` or, in the 1490 faulty ones, in the end `Rejects` holds all the way; what is printed of the result would set it again |
| `config_blanks` | blanks after a header, after an entry, at the end of the file | **violated**: a blank that ends a line makes the next line "expected '[' to start new section" |
| `profiles` | 2 profiles, 3 inodes, 4 changes, 2 seconds; a buffer of 1 and texts of up to 3 | a command runs with the configuration in force when it has its lock, but for two windows; `suck_file` stays in its buffer; a call begins again only for a reason, and decides |
| `commandline` | 2225 commands, 3 environments, 6 configurations, any number of config changes and failures of distcc | what runs is what was typed, with what its section adds; one `-j`, of the right number; distcc in front of exactly the compiles it can take; a write behind `new_argv` only for a make with more words to add than fit |

The violations are disagreements of the code with its own comments, manual and
change log, quoted under "findings" in `PROJECT.json`. More were met on the
way and are in the actions, without a run of their own:

- A fragment ends at its first line that is not indented, and the rest of its
  file is dropped without a word (`FragmentEnds`), where `ccontrol.1.txt`
  promises a literal insertion.
- An unknown command in a section without ccache makes `main` index
  `sec.names` out of bounds and crash (`NoName`, `CommandLine!Crash`), where
  `CHANGES:11` has it "passed through".
- A creator of the semaphore that is killed between `semget` and `SETVAL` leaves
  one that nobody can take, or that denies everybody, until it is removed by
  hand (`Stuck`; in `SlowLock`, `Orphaned`).
- `add make` may add any number of words (`ccontrol.1.txt:147`), and `new_argv`
  has room for 20 of them besides `-j` (`Overrun`).
- `undo_decrement_envvar` turns an unset `CCONTROL_LOCK` into `'@'`
  instead of unsetting it, so a top-level make that begins again queues for a
  lock ("No locks for top-level make", `ccontrol-lock.c:189`; `CHANGES:51`).
- The undo functions do not restore an inherited `CCONTROL_LOCK=1` either, they
  unset it. If distcc calls ccontrol, which takes the slow lock because distcc
  has been switched off, and begins again because it is switched on, "called
  myself?" (`ccontrol-lock.c:204`) no longer notices, and the process may wait for
  the byte of its own ancestor: with `Mistaken` programs and two edits TLC finds
  `NoWaitOnAncestor` violated.
- Of two `add env` of one variable the first one written wins (`setenvs`), so a
  section cannot override an earlier one, where `ccontrol.1.txt:70` has values
  overridden "on a per-directory basis". `EnvironmentOfSection` leaves open
  which of them is in force. A retry unsets what `add env` had replaced.
- A config that changes between its read and its `fstat`, or twice within one
  second, is not noticed (`Races`), where `ccontrol.1.txt:226` knows no
  exception.
- The applet cannot replace a link that dangles: `os.access` follows it,
  `os.symlink` fails (`AppletSymlink`).
- `int_to_string` has seven digits: with 500000 `cpus` or more, which the
  parser allows, `-j` is followed by something that is no number.
- The settings that `print_section` leaves out or misprints are named at
  `PrintsWhatApplies`.

Bounds. `DISTCC_LIMIT` and `MAKE_LIMIT` are constants, scaled from 20 and 3 to
1 or 2 so that the ranges fill up with few processes; nothing in the code
compares them with another number. Four slots hold a top-level make, a nested
make and two commands, or one whole pipeline (ccontrol, ccache, ccontrol,
distcc), which is the deepest chain of waits the code can build out of
different locks; a compile and a link under the same make compete in it. One
edit (`MaxEdits`) puts any process once through `again`; more edits repeat it.
`MaxCalls` bounds the commands of one program, as a makefile does: without it
a make may run for ever. Slots are reused, so runs are not short: a command
that ends makes room for the next. Slots are interchangeable and are a
symmetry set in the safety runs; `finish`, the fair run, uses none. There
`Mortal` says which commands may be killed, by what they are and not by slot, so
nothing tells the slots apart, and `EveryCommandEnds` speaks of the commands of
one slot for all. `finish` does not check deadlock: behind a semaphore without a
value everybody sleeps. `stale_flag` allows one edit, the least the error takes.

The texts of `config` have one entry to a line, in files that end with a line
end; included files begin with a section header or are fragments of indented
lines; no path is spelled like a keyword or a number; no file includes itself;
no directory contains a directory called `ccache`. Within that, each topic
takes all combinations of its entries in two sections that match or not, which
is enough to meet every order of two entries with the same key, in one section
and across sections, and with a third between them.

In `profiles` one call stands for all: calls change nothing of what they read.
An inode that is open keeps its number, so three are enough for the open file,
the other profile and a new one. The buffer begins with one byte, so that a
text of three needs a second and a third read with changes between them. Four
changes let a file be truncated, extended and finished while the applet moves
the link, or a profile be replaced after the call has begun again; two seconds
make "the same second" and "a later one".

In `commandline` all sequences of up to three of twelve kinds of options, and
of four of those that take an argument or may be given once, meet every order
of the flags of `can_distcc`. `Spare` is 5, for 23, so there is room
for two words of a section besides `-j`. One section adds two, and every slot is
used; another adds three, which is one too many (`Overrun`) wherever a `-j`
comes with them. Nothing is counted: the rounds repeat for ever
and there are finitely many states.

Fairness. `SlowLock!Fairness` and `Ccontrol!Fairness` assume of the kernel
that it runs every process that can run, and that it queues the sleepers of
`fcntl` and `semop` so that one that could be woken again and again is woken
(strong fairness of just those calls); of the programs that they come to an
end when they can again and again. `Config` and the call of
`Profiles` are one process that runs. No user has to start, edit or kill
anything, and distcc may fail every time.

## 5. What is proved

`SlowLockProofs`, for every number of processes, lock files and `cpus`, from
`ConstantsOK` (finitely many processes, `cpus` positive, a lock file for
each):

- `Invariance`: `Spec => []IndInv`. `Conservation` alone is not inductive: the
  adjustment of a process that dies must be one exactly if it holds a unit
  (`UndoMatches`), and `SETVAL`, which clears all adjustments, must come when
  nobody holds any, which is so because the one process that created the
  semaphore is alone between `semget` and `SETVAL` (`OneCreator`).
- `TypeCorrect`, `UnitsConserved`, `SlowLimitHolds`, `InitializedOnce` follow.
- `ImplementsCountingLock`: `SetVal` is `Open`, `SemOp` is `Acquire`,
  `DropSlowLock` and the end of a holder are `Release`, all else stutters.

`CcontrolProofs`, for every number of process slots, every lock file, every
set of sections and every edit of them, and every program that starts
commands, from `ConstantsOK` (the slots are finitely many, the limits and
`cpus` positive, and so on):

- `Invariance`: `Spec => []IndInv`. "Nobody sleeps for a lock while holding
  one" is not inductive. A process arrives in `grab_lock` again after a config
  change, after a failed distcc and as a child, and what it then holds depends
  on whether `undo` and `close` gave everything back. The parts are:
  `NothingHeld`, by the place in `main`, who has no unit and no byte;
  `UndoKnows`, the undo function that is stored fits what is held (a unit
  exactly with `drop_slow_lock`) and a byte is one of the file that
  `close(sec.lock_fd)` closes, which makes `Restart` safe; and
XX- `TypeCorrect`, `NothingHeldWhileWaiting` (`NoHoldAndWait`) follow.
- `UsesCountingLock` (`SlowLockUse`): each step on the semaphore is one that
  `CountingLock` allows, the abstract lock that `SlowLock` implements.
- `DepthIsChar` (`LockIsChar`): the `char` of `CCONTROL_LOCK` holds every depth
  of makes up to `MaxDepth`, and however often a make starts again it is not
  lowered below '@'. It justifies the numbers of the model; for deeper makes it
  says nothing, and the code nothing either.

`CcontrolProofs`, where `Orderly` (`CcontrolOrder`), for every number of slots and
edits:

- `LineInvariance`: `Spec => [](IndInv /\ LineInv)`. `SlowMeansHeld` is not
  inductive: the holder of the unit may be several processes up, and it must
  not end, or drop it, before those below. `SlowInherited` follows the unit one
  parent at a time, `FewChildren` says that who is in between only waits, and
  `Acyclic` that the way up ends.
- `SlowLockIsHeld` (`SlowMeansHeld`): the processes for which it fails would be
  a set that contains all its parents, against `Acyclic`.
- `JobsAreBounded` (`JobsBounded`): among the processes with
  `CCONTROL_LOCK=0`, "parent of" is an injection from those without a unit into
  those with a child (`EndsOfLines`), so the jobs, which have none, are at most
  the holders, who are at most `semcap`.

`CcontrolProofs`, where `Ranked`, for every number of slots, edits, `cpus` and
depth of makes:

- `ByteInvariance`: `Spec => [](IndInv /\ LineInv /\ ByteInv)`. A byte stays
  in the range of its owner's depth, and a child's depth is not below its
  parent's, also while either begins again.
- `NoCircleOfWaits` (`NoWaitOnAncestor`): the makes that are not deeper than p
  contain p's ancestors, their bytes are of ranges before the one p waits in,
  and the ranges are disjoint (`RangesApart`).

`CcontrolProofs`, where `Counted`, also:

- `HeldInvariance`: `Spec => [](IndInv /\ LineInv /\ ByteInv /\ HeldInv)`.
  `FastLimits` counts processes, and the kernel counts bytes. That a byte has
  one owner is not enough: a process must also have kept its byte, through
  `again` and a failed distcc, for as long as it counts as running (`Counts`,
  `UnderByte`).
- `FastLimitsHold` (`FastLimits`): to each nested make of a depth, and to each
  compile at distcc, belongs a byte it owns (`EachItsByte`); this is an
  injection into the range of the depth, or of the fast lock, whose size is
  the limit.

`PipeProofs`, where `Layered`, for every number of slots, all sections and
edits, and any failures of distcc:

- `PipeInvariance`: `Spec => [](IndInv /\ PipeInv)`. `PreprocessLocked` speaks
  of a preprocessor and of a lock that another process holds, two parents up.
  That one lets go only when its pipe says so, that is, when somebody has
  written to it or all have closed it. `Below` says who can: the program the
  owner waits for, and what this has just called. `OneChild` makes the
  preprocessor and the compile that tells exclude each other; the write end
  in the preprocessor's `wfd`, with `~told`, keeps `ReadPipe` from returning.
  A preprocessor the user typed has no pipe and holds its own unit
  (`PreAlone`), which rests on `UndoKnows`.
- `PreprocessorIsLocked` (`PreprocessLocked`).

`ProfilesProofs`, for any profiles, sizes and changes, from `ConstantsOK`:

- `Invariance`: `Spec => []IndInv`. `RunsWithCurrent` speaks of the moment of
  the restat only; what makes it true is `ReadKnows`, which follows the text
  through the call: what has been read is a beginning of the open file, then
  all of it, until its ctime differs from the stat or `raced` is set.
  `Untouched` is the converse, for `RestartsOnChange`. `BufferRoom` is what
  `BufferFits` needs: between two reads the buffer is never full.
- `TypeCorrect`, `BufferSafe`, `CurrentUnlessRaced` and `RestartsHaveReasons`
  follow.

`CommandLineProofs`, for every command, environment and set of sections, from
`ConstantsOK` (`--section` names a section there is, optional settings have at
most one value, an environment has the variables ccontrol uses). How many words
a section adds is left open:

- `Invariance`: `Spec => []IndInv`. `Restored` says that a round begins with
  the words typed, however the last one ended, and `SectionRead` that main
  only takes away from the section it has read.
- `RunsTheCommand` (`RunsWhatWasTyped`) and `RoomSuffices` (`StaysInRoom`)
  follow; the lemmas before them say what each kind of command becomes, and
  `SlotsAre` how many slots that takes: at most two more than were typed, or,
  for a make, three and those the section adds.
- `RoundInvariance`: `Spec => []RoundInv`. What runs is decided from the section
  and the environment as `main` has left them, possibly after earlier rounds;
  `SettingsKept` and `EnvironmentKept` compare both with what was read and
  inherited.
- `TypeCorrect`, `RunsParallelAlways`, `DistccRunsWhereItCan` and
  `EnvironmentIsOfSection` follow. They speak of recursive functions of the
  words: what `can_distcc` says of a whole command (`ScanSays` gives for its
  loop the position that decides), the digits of `-j` (`DigitsOf`: what
  `int_to_string` writes reads as the number, below 10^7) and the environment
  after all `add env` (`SetenvsIs`: of two entries for a variable the last one
  the code applies, the first in the file, wins). For `DistccRunsWhereItCan`
  the command must not end in an option that wants a word (`Complete`), behind
  which the code reads the end of argv.

`ConfigProofs`, for any files and any words in them, from `ConstantsOK` (the
config file exists, the files are finitely many texts, `atoi` yields numbers):

- `TypeCorrect`: `Spec => []TypeOK`. It is inductive as it stands: `Nested`
  names for each reader what may be below it on the stack, `Settings` relates
  the settings of a section to each other. It rests on what the tokenizer
  returns (`TokenAt`): the loop of `peek_token` is a recursive function, which
  has a solution because each turn that does not return goes on at a later place
  (`TurnIs`, `PeekIs`), so that a token lies behind the place it was looked for
  at, but for the end of the text. `GetPathIs`, `ToIntIs` and `GetToEolIs` say
  the same of values.
- `ReadingAdvances` (`Advances`): no step goes back in a text or touches one
  that waits. A config file without cycles of includes is therefore read in
  finitely many steps; that the last one is reached is `Ends`, for TLC.

`ReadingProofs`, for all files that are legible and any number of them,
any sections, entries, values, comments, includes and wrong lines in them, from
the same assumption and `NoNesting`:

- `ReadingCorrect`: `Spec => []ReadingInv`. `ReadsAsWritten` and
  `RejectsFaults` speak of the end of a reading. What makes them true is
  `Follows` or `Rejects`. `Follows` says for every stack of files in the middle
  of a reading which entries are left: those of the innermost reader from its place on,
  then those of the reader that waits for it (`Unread`). They must be exactly
  the last ones of what the files say with all includes inserted, which is
  why each reader must be in place (`InPlace`): behind a line, in a file of
  the kind it takes it for, and before a line that is not indented while it
  waits in a file. `Collected` is what the settings mean: at file level the
  result is that of all entries so far that apply; inside a section, of which
  it is not decided until its end whether it matches, the result is that of the
  entries before its header and `sec` that of these and its own. Without the
  latter the copy at the header, and the drop or return at the end, could
  not be followed.
  The steps of the argument: the recursive definitions of both modules have
  solutions (`WordsAre`, `EntriesAre`; `ContentsAre` by a rank on the files,
  which exists because they are finitely many and `Acyclic`: `Ranks`); from
  behind a line `peek_token` finds the next one, whatever comments and empty
  lines are between (`PeekLine`), and inside a line the next word
  (`NextWord`); so the value that an instruction reads is that of the entry
  on its line, and the reader is then behind the line (`PathRead`,
  `NumberRead`, `RestRead` and the like); taking that line takes one entry
  from what is left, or puts the entries of a file in its place
  (`UnreadMoves`, `FollowInclude`); and one entry more changes what
  the settings mean as the code changes them (`MeansStep`). There is one lemma
  for each action (`NoParallelFollows` to `SectionFollows`).
  Where the next line is wrong, or includes what is not there, the entry that
  is the first of what is left is wrong too, so the files are faulty
  (`BlockedIs`). There a second lemma for each action (`VerboseDooms` to
  `SectionDooms`) shows that it fails, or that what it reads of the line, a
  value in range or a path say, is followed by more words on it (`Inside`).
  These are no indent, header, include or end (`PartlyDoomed`), so a section
  ends before them and the file is rejected at them (`DoomedStep`): the steps in
  which the code has set a value of a wrong line, and does not know it yet.
- `ReadsLegible`: `ReadsAsWritten` and `RejectsFaults` hold of legible files at
  every moment. At the end nothing is left, so all entries have been read, and
  none of these was wrong; and a reading that fails has met one that is.

`Recursion` has the lemmas the last three rest on. The library's theorems on induction
take an operator as a parameter and cannot be used here; instead a set of
numbers has a least one (`LeastOf`, from the well-foundedness of inclusion among
finite sets), so a set that contains n + 1 with n has all (`Induction`), a
recursion that goes down a rank has a solution and satisfies its equation
(`RecursionDefines`), and so does the fold of the community modules
(`FoldDefines`). `Upwards` and `Downwards` are the second for recursions that go
one place at a time, and `FromTheEnd` is induction from the end of a sequence.

All proofs go through the actions one by one; the lemmas before them say what
the helpers (`Exec`, `Fork`, the undo functions, `Ended`) leave alone.

Only model-checked: `Served`, `EveryCommandEnds`, `Ends` and `Decides` (liveness and
ENABLED are out of reach of the prover); of the parser `PrintsWhatApplies`,
which would need the same argument for a text that is itself computed from
the settings, over the folds that print them. For files that are not legible
`ReadsAsWritten` and `RejectsFaults` are not claimed: those of `config_blanks`,
which are not `Tidy`, violate the latter.

## 6. What is not modelled

`setpriority`, and the messages of `verbose` and `fatal`; allocations that
fail; descriptors that are not closed when main begins again in a section with
a lock file; the windows of the applet, and the search of `ccontrol-init` for
programs and hosts; the generated tables (`keywords.c`, `extensions.c`), whose
lookups are kinds of words here; the build and its packaging, with the copies
of older sources in `.pc/`.
