---------------------------- MODULE CommandLine ----------------------------
(***************************************************************************)
(* One ccontrol process, from the command typed to the program that runs:  *)
(* its own options, what_am_i, the scan of can_distcc, what is added to    *)
(* the arguments and to the environment, and what is undone before it      *)
(* tries again after a config change or a failure of distcc.               *)
(*                                                                         *)
(* A word of a command has a kind, what the code can tell of it, and a     *)
(* text, a sequence of numbers; where the code reads digits, those are it. *)
(***************************************************************************)
EXTENDS Integers, SequencesExt

CONSTANTS
  Lines,     \* the commands typed
  Configs,   \* per directory: the section in force there
  Cwd,       \* the working directory
  Environs,  \* the environments at the start
  Spare      \* room of new_argv beyond argc (23)

Type == {"cc", "c++", "ld", "make", "other"}
\* "-MF" is short for -MF, -MT and -MQ, "-MD" for -MD, -MMD, -MG and -MP,
\* "-M" for any other option that begins so; "-fprofile" for -fprofile-arcs,
\* -ftest-coverage and -frepo; "-ofile" is -o with the file behind it; "-w"
\* any option can_distcc does not know; "assign" has a '=' in it.
Refused == {"-E", "-M", "-Wa,-a", "-specs=", "-fprofile", "-x"}
Option == Refused \cup {"-MD", "-MF", "-Wa,", "-S", "-c", "-o", "-ofile", "-w",
                        "-j", "--section=", "--version"}

Word(kind, text) == [kind |-> kind, text |-> text]
Unset == "unset"

Words == [kind : STRING, text : Seq(Nat)]

\* Of a section, the settings that bear on the command.  Optional values are
\* sets of at most one element, the lists of "add" begin with the last one.
Section ==
  [names : [Type \ {"other"} -> SUBSET Words],
   ccache : SUBSET Words, distcc : SUBSET Words,
   distcc_hosts : SUBSET STRING, distcplusplus_hosts : SUBSET STRING,
   no_parallel : SUBSET SUBSET Words, cpus : Nat,
   make_add : Seq(Words), env_add : Seq(Seq(STRING))]

\* The variables main sets itself, and the one it reads.
Reserved == {"MAKE", "DISTCC_HOSTS", "DISTCC_FALLBACK", "CCACHE_PREFIX",
             "CCONTROL_LOCK_FD"}
Optional(value) == \A x, y \in value : x = y

\* What may be typed: words, of which --section names a section there is.
Typable(line) ==
  /\ line \in Seq(Words) /\ line # <<>>
  /\ \A i \in DOMAIN line : \A c \in Configs :
       line[i].kind = "--section=" => line[i].text \in DOMAIN c

\* An environment has a value for each variable, Unset for one that is not set.
ASSUME ConstantsOK ==
  /\ Spare \in Nat /\ Spare >= 2
  /\ \A c \in Configs :
       /\ Cwd \in DOMAIN c
       /\ \A d \in DOMAIN c :
            /\ c[d] \in Section
            /\ \A t \in Type \ {"other"} : Optional(c[d].names[t])
            /\ Optional(c[d].ccache) /\ Optional(c[d].distcc)
            /\ Optional(c[d].distcc_hosts)
            /\ Optional(c[d].distcplusplus_hosts)
  /\ \A line \in Lines : Typable(line)
  /\ \A e \in Environs : /\ e = [v \in DOMAIN e |-> e[v]]
                          /\ Reserved \cup {"MAKEFLAGS"} \subseteq DOMAIN e

VARIABLES
  typed,               \* orig_argv
  env,                 \* the environment, per variable
  home,                \* history: what it was at first
  pc,                  \* where main is
  argv, shift,         \* the command, and where in new_argv it begins
  used,                \* slots of new_argv written, the NULL included
  dirname, sec, type,  \* main's other locals
  nodistcc, noccache, ccache_then_distcc,
  read,                \* history: the section as it was read
  retried              \* history: distcc has failed

input == <<typed, home>>
args == <<argv, shift, used>>
locals == <<dirname, type, sec, read>>
flags == <<nodistcc, noccache, ccache_then_distcc>>
vars == <<input, env, pc, args, locals, flags, retried>>

NoSection == [names |-> [t \in Type \ {"other"} |-> {}]]

Init ==
  /\ typed \in Lines
  /\ env \in Environs /\ home = env
  /\ pc = "main"
  /\ argv = <<>> /\ shift = 0 /\ used = 0
  /\ dirname = Cwd /\ sec = NoSection /\ read = NoSection /\ type = "other"
  /\ nodistcc = FALSE /\ noccache = FALSE /\ ccache_then_distcc = FALSE
  /\ retried = FALSE

-----------------------------------------------------------------------------
(* What the command is.                                                    *)

Has(line, kinds) == \E i \in DOMAIN line : line[i].kind \in kinds

is_preprocess(line) == Has(line, {"-E"})

what_am_i(line) == IF line[1].kind \in Type THEN line[1].kind ELSE "other"

\* The words an option takes with it.  Mutant: only -o takes another.
WidthOfO(kind) == IF kind = "-o" THEN 2 ELSE 1
Width(kind) == IF kind \in {"-o", "-MF"} THEN 2 ELSE 1

\* The loop of can_distcc from argv[i] on.  What follows -o or -MF is skipped
\* even if it is the NULL that ends argv; what lies "beyond" may be anything.
can_distcc(line) ==
  LET n == Len(line)
      scan[i \in 1 .. n + 2] == [seen \in SUBSET {"input", "output", "goal"} |->
        LET kind == line[i].kind
            next == i + Width(kind)
            Once(what) ==
              IF what \in seen THEN "no" ELSE scan[next][seen \cup {what}]
        IN CASE i = n + 2 -> "beyond"
             [] i = n + 1 -> IF {"input", "goal"} \subseteq seen THEN "yes"
                             ELSE "no"
             [] OTHER ->
                  CASE kind = "source" -> Once("input")
                    [] kind \in {"object", "-ofile", "-o"} -> Once("output")
                    [] kind \in Refused -> "no"
                    [] kind \in {"-c", "-S"} -> scan[next][seen \cup {"goal"}]
                    [] OTHER -> scan[next][seen]]
  IN scan[2][{}]

-----------------------------------------------------------------------------
(* What is added to it.                                                    *)

\* Digits from 1000000 down; eight would be needed from 10000000 on, and the
\* first "digit" is then more than nine.  Mutant: one digit less.
OrdsBelow == <<100000, 10000, 1000, 100, 10, 1>>
Ords == <<1000000, 100000, 10000, 1000, 100, 10, 1>>
int_to_string(val) ==
  LET Digit(k) == (IF k = 1 THEN val ELSE val % Ords[k - 1]) \div Ords[k]
      digits == [k \in DOMAIN Ords |-> Digit(k)]
      zeros == {k \in 1 .. Len(Ords) - 1 : \A j \in 1 .. k : Digit(j) = 0}
  IN SubSeq(digits, Cardinality(zeros) + 1, Len(Ords))

\* The last argument which is neither option nor variable, perhaps argv[0].
Target(line) ==
  Last(SelectSeq(line, LAMBDA w : w.kind \notin Option \cup {"assign"}))

\* no_parallel is the set of words its wildcards match; an empty string
\* matches all, and where it is not set nothing does.
make_target_match(line, targets) ==
  \E words \in targets : words = {} \/ Target(line) \in words

already_has_dash_j(line) ==
  Has(line, {"-j"}) \/ env["MAKEFLAGS"] = "--jobserver-fds"

Added == Reverse(sec.make_add)

\* main has put the program of the section into argv[0].
Renamed ==
  IF type = "other" THEN argv
  ELSE <<CHOOSE w \in sec.names[type] : TRUE>> \o Tail(argv)

ForMake ==
  LET dash_j == IF \/ make_target_match(Renamed, sec.no_parallel)
                   \/ already_has_dash_j(Renamed)
                THEN <<>> ELSE <<Word("-j", int_to_string(sec.cpus * 20))>>
  IN <<Renamed[1]>> \o Added \o dash_j \o Tail(Renamed)

Prefix == IF sec.ccache # {} THEN sec.ccache ELSE sec.distcc
ForCompile ==
  IF Prefix = {} THEN Renamed ELSE <<CHOOSE w \in Prefix : TRUE>> \o Renamed

Adjusted == CASE type = "make" -> ForMake
              [] type \in {"cc", "c++"} -> ForCompile
              [] OTHER -> Renamed

\* insert_arg at pos moves argc + 1 words, a word too many but for pos 0: the
\* slots that are written for n words at pos.
\* Mutant: main's own arguments are skipped, and argc is not decremented.
WrittenOfAll(n, pos) == IF n = 0 THEN 0 ELSE shift + Len(typed) + n + pos + 1
Written(n, pos) == IF n = 0 THEN 0 ELSE shift + Len(argv) + n + pos + 1
Slots == Written(Len(Adjusted) - Len(argv), IF type = "make" THEN 1 ELSE 0)
Room == Len(typed) + Spare

\* setenv for each "add env", the last one first.
setenvs(adds, e) == FoldLeft(LAMBDA f, a : [f EXCEPT ![a[1]] = a[2]], e, adds)
HostsOf(t, s) == IF t = "cc" THEN s.distcc_hosts ELSE s.distcplusplus_hosts

Environment ==
  LET make == IF type = "make" THEN [env EXCEPT !["MAKE"] = "make"] ELSE env
      hosts == IF type \in {"cc", "c++"} /\ sec.ccache = {} /\ sec.distcc # {}
               THEN [make EXCEPT !["DISTCC_HOSTS"] =
                                    CHOOSE h \in HostsOf(type, sec) : TRUE]
               ELSE make
      added == setenvs(sec.env_add, hosts)
  IN CASE ccache_then_distcc ->
            [added EXCEPT !["CCONTROL_LOCK_FD"] = "fd",
                          !["CCACHE_PREFIX"] = "ccontrol"]
       [] ~ccache_then_distcc /\ sec.distcc # {} ->
            [added EXCEPT !["DISTCC_FALLBACK"] = "0"]
       [] OTHER -> added

-----------------------------------------------------------------------------
(* main.                                                                   *)

\* CCONTROL_LOCK_FD is set: ccache calls, to preprocess or to compile.
Preprocess ==
  /\ pc = "main"
  /\ env["CCONTROL_LOCK_FD"] # Unset /\ is_preprocess(Tail(typed))
  /\ argv' = Tail(typed)
  /\ pc' = "preprocess"
  /\ UNCHANGED <<input, env, shift, used, locals, flags, retried>>

Compile ==
  /\ pc = "main"
  /\ env["CCONTROL_LOCK_FD"] # Unset /\ ~is_preprocess(Tail(typed))
  /\ env' = [env EXCEPT !["CCACHE_PREFIX"] = Unset,
                        !["CCONTROL_LOCK_FD"] = Unset]
  /\ noccache' = TRUE
  /\ pc' = "args"
  /\ UNCHANGED <<input, args, locals, nodistcc, ccache_then_distcc, retried>>

Begin ==
  /\ pc = "main"
  /\ env["CCONTROL_LOCK_FD"] = Unset
  /\ pc' = "args"
  /\ UNCHANGED <<input, env, args, locals, flags, retried>>

\* again_restore_args: orig_argv once more, and ccontrol's own options.
HasSection == /\ Len(typed) > 1
              /\ typed[1].kind = "ccontrol" /\ typed[2].kind = "--section="
Skipped == IF typed[1].kind # "ccontrol" THEN 0
           ELSE IF HasSection THEN 2 ELSE 1
Asked == SubSeq(typed, Skipped + 1, Len(typed))
Command == Asked # <<>> /\ ~(Skipped > 0 /\ Asked[1].kind = "--version")

\* Mutant: after a failure of distcc the words are those it was called with.
RestoreNot ==
  /\ pc = "args" /\ Command
  /\ argv' = IF retried THEN argv ELSE Asked
  /\ shift' = Skipped /\ used' = Len(typed) + 1
  /\ dirname' = IF HasSection THEN typed[2].text ELSE Cwd
  /\ type' = what_am_i(Asked)
  /\ pc' = "again"
  /\ UNCHANGED <<input, env, sec, read, flags, retried>>

Restore ==
  /\ pc = "args" /\ Command
  /\ argv' = Asked /\ shift' = Skipped /\ used' = Len(typed) + 1
  /\ dirname' = IF HasSection THEN typed[2].text ELSE Cwd
  /\ type' = what_am_i(Asked)
  /\ pc' = "again"
  /\ UNCHANGED <<input, env, sec, read, flags, retried>>

\* --version, or nothing: main prints and exits.
NoCommand ==
  /\ pc = "args" /\ ~Command
  /\ pc' = "exit"
  /\ UNCHANGED <<input, env, args, locals, flags, retried>>

\* Whether distcc may be tried without ccache, before the arguments are looked
\* at.
Hosts(s) == type \in {"cc", "c++"} => HostsOf(type, s) # {}

\* The program the section names; where it names a directory, the one in it
\* with the name of the command.  An unknown command has none; the memory
\* behind sec.names, sec.ccache, is taken for it.
resolve_path(word, cmd) ==
  IF word.kind = "dir" THEN Word(cmd.kind, word.text \o cmd.text) ELSE word
NameOf(s) == IF type = "other" THEN s.ccache ELSE s.names[type]
Resolved(s) ==
  LET path == {resolve_path(w, argv[1]) : w \in NameOf(s)}
  IN IF type = "other" THEN [s EXCEPT !.ccache = path]
     ELSE [s EXCEPT !.names[type] = path]

\* again: the section, and what of it applies to this command.
Read ==
  /\ pc = "again"
  /\ \E c \in Configs :
       LET s == Resolved(c[dirname])
           ccache == IF noccache THEN {} ELSE s.ccache
           wanted == s.distcc # {} /\ ~nodistcc /\ type \notin {"ld", "make"}
           direct == wanted /\ ccache = {} /\ Hosts(s)
       IN /\ NameOf(c[dirname]) # {}
          /\ \E distcc \in {s.distcc, {}} :
               /\ distcc # {} => direct /\ can_distcc(argv) # "no"
               /\ distcc = {} => ~direct \/ can_distcc(argv) # "yes"
               /\ sec' = [s EXCEPT !.ccache = ccache, !.distcc = distcc]
          /\ read' = c[dirname]
          /\ ccache_then_distcc' =
               (ccache_then_distcc \/ (wanted /\ ccache # {}))
  /\ pc' = "lock"
  /\ UNCHANGED <<input, env, args, dirname, type, nodistcc, noccache, retried>>

\* A NULL for a path, or a word behind the end of argv.
Crash ==
  /\ pc = "again"
  /\ \/ \E c \in Configs : NameOf(c[dirname]) = {}
     \/ can_distcc(argv) = "beyond"
  /\ pc' = "crash"
  /\ UNCHANGED <<input, env, args, locals, flags, retried>>

\* The config changed while main waited for the lock.
Altered ==
  /\ pc = "lock"
  /\ nodistcc' = FALSE
  /\ pc' = "again"
  /\ UNCHANGED <<input, env, args, locals, noccache, ccache_then_distcc,
                 retried>>

\* adjust_args_and_environment; then ccache or distcc is forked, or the
\* program run.
Run ==
  /\ pc = "lock"
  /\ Slots <= Room
  /\ \A i \in DOMAIN sec.env_add : Len(sec.env_add[i]) = 2
  /\ argv' = Adjusted
  /\ used' = IF Slots > used THEN Slots ELSE used
  /\ env' = Environment
  /\ pc' = IF ~ccache_then_distcc /\ sec.distcc # {} THEN "wait" ELSE "ran"
  /\ UNCHANGED <<input, shift, locals, flags, retried>>

\* insert_arg writes behind the end of new_argv: anything may follow.
Overrun ==
  /\ pc = "lock"
  /\ Slots > Room
  /\ used' = Slots
  /\ pc' = "overrun"
  /\ UNCHANGED <<input, env, argv, shift, locals, flags, retried>>

\* fatal("Environment variable needs '='")
NoEquals ==
  /\ pc = "lock"
  /\ Slots <= Room
  /\ \E i \in DOMAIN sec.env_add : Len(sec.env_add[i]) # 2
  /\ pc' = "fatal"
  /\ UNCHANGED <<input, env, args, locals, flags, retried>>

\* distcc did not distribute: the variables that were added go, and main
\* begins again without it.  Mutant: they stay.
RetryKeepsAdded ==
  /\ pc = "wait"
  /\ env' = [env EXCEPT !["CCACHE_PREFIX"] = Unset]
  /\ nodistcc' = TRUE /\ retried' = TRUE
  /\ pc' = "args"
  /\ UNCHANGED <<input, args, locals, noccache, ccache_then_distcc>>

Retry ==
  /\ pc = "wait"
  /\ env' = setenvs([i \in DOMAIN sec.env_add |-> <<sec.env_add[i][1], Unset>>],
                    [env EXCEPT !["CCACHE_PREFIX"] = Unset])
  /\ nodistcc' = TRUE /\ retried' = TRUE
  /\ pc' = "args"
  /\ UNCHANGED <<input, args, locals, noccache, ccache_then_distcc>>

Next ==
  \/ Preprocess \/ Compile \/ Begin \/ Restore \/ NoCommand \/ Read \/ Crash
  \/ Altered \/ Run \/ Overrun \/ NoEquals \/ Retry

Spec == Init /\ [][Next]_vars

-----------------------------------------------------------------------------
(* Properties.                                                             *)

Running == pc \in {"ran", "wait"}

\* The command has a type; distcc is run directly only in the place of ccache,
\* and never without hosts for its language.
TypeOK ==
  /\ pc \in {"main", "args", "again", "lock", "ran", "wait", "preprocess",
             "exit", "crash", "fatal", "overrun"}
  /\ type \in Type
  /\ pc = "wait" => /\ sec.distcc # {} /\ sec.ccache = {}
                    /\ type \in {"cc", "c++", "other"}
                    /\ type # "other" => HostsOf(type, sec) # {}

\* However often main begins again, what it runs is what was typed: the
\* program of the section, behind at most one of ccache and distcc, then what
\* "add make" adds in the order it is written ("Specifies an argument to be
\* added to each invocation"), then the arguments as they were; and the
\* section is the one of --section if it was given.
RunsWhatWasTyped ==
  Running =>
    LET program == {<<resolve_path(w, Asked[1])>> : w \in NameOf(read)}
        tools == {<<w>> : w \in read.ccache \cup read.distcc} \cup {<<>>}
        dash_j == {i \in DOMAIN argv : argv[i].kind = "-j"}
        jobs == {<<argv[i]>> : i \in dash_j} \cup {<<>>}
    IN /\ \/ /\ type = "make"
             /\ \E p \in program, j \in jobs :
                  argv = p \o Reverse(read.make_add) \o j \o Tail(Asked)
          \/ /\ type \in {"cc", "c++"}
             /\ \E t \in tools, p \in program : argv = t \o p \o Tail(Asked)
          \/ /\ type = "ld"
             /\ \E p \in program : argv = p \o Tail(Asked)
          \/ /\ type = "other"
             /\ argv = Asked
       /\ HasSection => dirname = typed[2].text

\* A make gets one -j, of 20 jobs for each cpu, behind what its section adds,
\* if neither its command line nor a make above it has one, and no wildcard
\* suppresses it; otherwise it gets none.  Right up to 499999 cpus.
Value(digits) == FoldLeft(LAMBDA n, d : 10 * n + d, 0, digits)
JobsFirst(words, cpus) ==
  LET digits == words[1].text
  IN /\ {i \in DOMAIN words : words[i].kind = "-j"} = {1}
     /\ cpus < 500000 => /\ \A i \in DOMAIN digits : digits[i] \in 0 .. 9
                         /\ Value(digits) = 20 * cpus
RunsParallel ==
  Running /\ type = "make" =>
    LET line == <<argv[1]>> \o Tail(Asked)
        behind == SubSeq(argv, Len(read.make_add) + 2, Len(argv))
        wanted == /\ ~Has(line, {"-j"})
                  /\ home["MAKEFLAGS"] # "--jobserver-fds"
                  /\ ~make_target_match(line, read.no_parallel)
    IN IF wanted THEN JobsFirst(behind, read.cpus) ELSE behind = Tail(Asked)

\* An argument that belongs to the option before it.
Taken(line) ==
  LET taken[i \in DOMAIN line] ==
        i > 2 /\ line[i - 1].kind \in {"-o", "-MF"} /\ ~taken[i - 1]
  IN {i \in DOMAIN line : taken[i]}

\* distcc can take a compile of exactly one source to at most one object, if
\* no option needs the whole tree.
Free(line, kinds) ==
  {i \in 2 .. Len(line) : i \notin Taken(line) /\ line[i].kind \in kinds}
Distributable(line) ==
  /\ Cardinality(Free(line, {"source"})) = 1
  /\ Cardinality(Free(line, {"object", "-ofile", "-o"})) <= 1
  /\ Free(line, Refused) = {}
  /\ Free(line, {"-c", "-S"}) # {}
Complete(line) == Len(line) \notin Free(line, {"-o", "-MF"})

\* Where a section sets a variable.
Given(v, s) == {i \in DOMAIN s.env_add : s.env_add[i][1] = v}

\* distcc is put in front of exactly the compiles it can take, with the hosts
\* for their language, unless ccache is in front or distcc has just failed.
\* (What it does when no host takes the compile is said by DISTCC_FALLBACK,
\* which is not always "0": see DistccGuarded in Ccontrol.)
DistccWhereItCan ==
  Running /\ type \in {"cc", "c++"} /\ Complete(Asked) =>
    LET tried == /\ read.distcc # {} /\ HostsOf(type, read) # {}
                 /\ ~nodistcc
                 /\ read.ccache = {} \/ noccache
                 /\ Distributable(Asked)
        front == IF read.ccache # {} /\ ~noccache THEN read.ccache
                 ELSE IF tried THEN read.distcc ELSE {}
    IN /\ IF front = {} THEN Len(argv) = Len(Asked)
          ELSE Len(argv) = Len(Asked) + 1 /\ {argv[1]} = front
       /\ tried /\ Given("DISTCC_HOSTS", read) = {} =>
            {env["DISTCC_HOSTS"]} = HostsOf(type, read)

\* A program runs with the variables its section adds and, for the rest, with
\* those main was started with: none that an earlier section added is left.
\* (A retry removes them; it does not restore what they replaced.)  Which of
\* two settings of one variable is in force is not laid down here: sections are
\* read "so you can override values on a per-directory basis"
\* (ccontrol.1.txt:71), but the first one written is the one that stays.
EnvironmentOfSection ==
  Running => \A v \in DOMAIN home \ Reserved :
    IF Given(v, read) # {}
    THEN \E i \in Given(v, read) : env[v] = read.env_add[i][2]
    ELSE env[v] = home[v] \/ (retried /\ env[v] = Unset)

\* insert_arg writes behind the end of new_argv only for a make whose section
\* adds more than Spare - 3 words, which nothing prevents: "multiple times to
\* add multiple arguments" (ccontrol.1.txt:147).  Elsewhere the NULL that ends
\* argv is in what has been written.
StaysInRoom ==
  /\ pc = "overrun" => type = "make" /\ Len(read.make_add) > Spare - 3
  /\ (pc \in {"again", "lock"} \/ Running) => shift + Len(argv) + 1 <= used

(***************************************************************************)
(* The inductive invariant the theorems rest on.                           *)
(***************************************************************************)

\* A round begins with what was typed, and reads the section of its place.
Restored ==
  pc \in {"again", "lock", "ran", "wait"} =>
    /\ Command
    /\ shift = Skipped
    /\ type = what_am_i(Asked)
    /\ dirname = IF HasSection THEN typed[2].text ELSE Cwd
    /\ pc \in {"again", "lock"} => argv = Asked /\ used = Len(typed) + 1

\* From the section that was read main only takes away.
SectionRead ==
  pc \in {"lock", "ran", "wait"} =>
    /\ read \in Section
    /\ NameOf(read) # {}
    /\ type # "other" =>
         /\ sec.names[type] = {resolve_path(w, Asked[1]) : w \in NameOf(read)}
         /\ sec.ccache \subseteq read.ccache
    /\ sec.distcc \subseteq read.distcc
    /\ sec.make_add = read.make_add

IndInv ==
  /\ Typable(typed)
  /\ Restored
  /\ SectionRead
  /\ RunsWhatWasTyped
  /\ StaysInRoom

\* Before a run the environment is the one at the start, but for what a failure
\* of distcc has removed; and no make comes to that.
EnvironmentKept ==
  /\ home \in Environs /\ env = [v \in DOMAIN home |-> env[v]]
  /\ retried => Command /\ what_am_i(Asked) # "make"
  /\ pc \in {"main", "args", "again", "lock"} =>
       \A v \in DOMAIN home \ Reserved :
         env[v] = home[v] \/ (retried /\ env[v] = Unset)

\* What is used of the section is as it was read, but for distcc, which is
\* dropped where it cannot be tried.
SettingsKept ==
  pc \in {"lock", "ran", "wait"} =>
    /\ \E c \in Configs : read = c[dirname]
    /\ sec.env_add = read.env_add /\ sec.no_parallel = read.no_parallel
    /\ sec.cpus = read.cpus /\ sec.distcc_hosts = read.distcc_hosts
    /\ sec.distcplusplus_hosts = read.distcplusplus_hosts
    /\ sec.distcc # {} => /\ sec.distcc = read.distcc /\ sec.ccache = {}
                          /\ type \notin {"ld", "make"} /\ Hosts(read)
    /\ type \in {"cc", "c++"} =>
         sec.ccache = IF noccache THEN {} ELSE read.ccache
    /\ type \in {"cc", "c++"} /\ Complete(Asked) =>
         (sec.distcc # {} <=> /\ read.distcc # {} /\ HostsOf(type, read) # {}
                              /\ ~nodistcc
                              /\ read.ccache = {} \/ noccache
                              /\ Distributable(Asked))

WaitsForDistcc ==
  Running => (pc = "wait" <=> ~ccache_then_distcc /\ sec.distcc # {})

RoundInv ==
  /\ TypeOK
  /\ EnvironmentKept
  /\ SettingsKept
  /\ WaitsForDistcc
  /\ RunsParallel
  /\ DistccWhereItCan
  /\ EnvironmentOfSection
=============================================================================
