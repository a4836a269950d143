------------------------------- MODULE Config -------------------------------
(***************************************************************************)
(* ccontrol-parse.c: how main reads the config file, token by token.  The  *)
(* stack holds the texts being read, each with the place reached and what  *)
(* is read there: a file (read_config_file), a section of it               *)
(* (read_section_section called by read_section) or a fragment             *)
(* (read_section_section called by read_section_file).                     *)
(***************************************************************************)
EXTENDS ConfigText

VARIABLES
  disk,    \* the files
  stack,   \* what is being read, the innermost last
  result,  \* the settings of the sections that match so far
  sec,     \* the settings of the section being read
  failed   \* parse_error or fatal

vars == <<disk, stack, result, sec, failed>>

\* get_default.  An optional value is a set of at most one.
get_default ==
  [name |-> {}, verbose |-> FALSE, nice |-> 10, cpus |-> 1, no_parallel |-> {},
   names |-> [n \in Names |-> {}], ccache |-> {}, distcc |-> {},
   distcc_hosts |-> {}, distcplusplus_hosts_set |-> FALSE,
   distcplusplus_hosts |-> {}, make_add |-> <<>>, env_add |-> <<>>,
   lock_fd |-> Config, lock_file |-> {}]

Reader(file, in) == [text |-> disk[file], at |-> 1, in |-> in]

Init ==
  /\ disk \in Disks
  /\ stack = <<Reader(Config, "file")>>
  /\ result = get_default
  /\ sec = get_default
  /\ failed = FALSE

(***************************************************************************)
(* Tokens.  A token has a type, its word, and the place behind it.         *)
(***************************************************************************)
Keyword == Names \cup Tools \cup Hosts \cup
  {"no-parallel", "verbose", "nice", "include", "cpus", "disable", "add",
   "env", "lock-file"}

Token(type, word, end) == [type |-> type, word |-> word, end |-> end]

\* The place behind the line that from is on; 0 if the line does not end.
upto(text, from) ==
  LET nl == SelectInSubSeq(text, from, Len(text), LAMBDA x : x = "nl")
  IN IF nl = 0 THEN 0 ELSE nl + 1

\* swallow_whitspace: blanks are one lexeme.
Swallowed(text, from) ==
  IF from <= Len(text) /\ text[from] = "ws" THEN from + 1 ELSE from

get_string(text, from) ==
  IF from > Len(text) \/ text[from] = "nl" THEN Token("STRING", "", from)
  ELSE LET word == text[from]
           type == IF word \in DOMAIN Integer THEN "NUMBER" ELSE "STRING"
       IN Token(IF word \in Keyword THEN word ELSE type, word, from + 1)

\* The loop of peek_token at p: a token, or on from a later place.
Turn(text, p, new_line, loop) ==
  LET end == Len(text) + 1
      q == Swallowed(text, p)
      at == IF q = end THEN "" ELSE text[q]
      indented == q # p /\ new_line /\ q # end
      comment == at = "#" /\ ~indented
  IN CASE p = end -> Token("END", "", end)
       [] p # end /\ text[p] = "nl" -> loop[<<p + 1, TRUE>>]
       [] indented /\ at \in {"nl", "#"} -> loop[<<q, TRUE>>]
       [] indented /\ at \notin {"nl", "#"} -> Token("INDENT", "", q)
       [] comment /\ upto(text, q) = 0 -> Token("END", "", end)
       [] comment /\ upto(text, q) # 0 -> loop[<<upto(text, q), TRUE>>]
       [] ~indented /\ at \in {"[", "]", "="} -> Token(at, at, q + 1)
       [] OTHER -> get_string(text, q)

peek_token(text, from) ==
  LET loop[s \in (1..(Len(text) + 1)) \X BOOLEAN] ==
        Turn(text, s[1], s[2], loop)
  IN loop[<<from, from = 1>>]

(***************************************************************************)
(* Values.  What a read yields: whether it succeeds, the value, and where  *)
(* to go on.                                                               *)
(***************************************************************************)
Read(ok, value, end) == [ok |-> ok, value |-> value, end |-> end]

get_value(text, from) ==
  LET tok == peek_token(text, from)
  IN IF tok.type = "=" THEN peek_token(text, tok.end)
     ELSE Token("NONE", "", from)

\* Mutant: the least number allowed is not.
to_int_above(tok, min, max) ==
  IF tok.type = "NUMBER" /\ Integer[tok.word] \in (min + 1)..max
    THEN Read(TRUE, Integer[tok.word], tok.end) ELSE Read(FALSE, 0, tok.end)

to_int(tok, min, max) ==
  IF tok.type = "NUMBER" /\ Integer[tok.word] \in min..max
    THEN Read(TRUE, Integer[tok.word], tok.end) ELSE Read(FALSE, 0, tok.end)

get_path(text, from) ==
  LET tok == get_value(text, from)
  IN Read(tok.type = "STRING", {Expanded(tok.word)}, tok.end)

get_optional_path(text, from) ==
  LET tok == peek_token(text, from)
  IN IF tok.type = "disable" THEN Read(TRUE, {}, tok.end)
     ELSE get_path(text, from)

get_to_eol(text, from) ==
  LET tok == peek_token(text, from)
      start == Swallowed(text, tok.end)
      next == upto(text, start)
  IN CASE tok.type = "disable" -> Read(TRUE, {}, tok.end)
       [] tok.type = "=" /\ next # 0 ->
            Read(TRUE, {SubSeq(text, start, next - 2)}, next - 1)
       [] OTHER -> Read(FALSE, {}, tok.end)

(***************************************************************************)
(* read_section_section: one action for each instruction.                  *)
(***************************************************************************)
Reading(in) == ~failed /\ stack # <<>> /\ Last(stack).in \in in
Text == Last(stack).text
Peeked == peek_token(Text, Last(stack).at)

At(end) == [stack EXCEPT ![Len(stack)].at = end]

\* parse_error and fatal.
Die == failed' = TRUE /\ UNCHANGED <<disk, stack, result, sec>>

\* The instruction after an indent.
Instruction == peek_token(Text, Peeked.end)
Instructed(types) ==
  /\ Reading({"section", "fragment"})
  /\ Peeked.type = "INDENT"
  /\ Instruction.type \in types

\* The effect of an instruction whose value was read.
Set(read, new) ==
  IF read.ok
    THEN /\ sec' = new
         /\ stack' = At(read.end)
         /\ UNCHANGED <<disk, result, failed>>
    ELSE Die

\* (The variable that is unset by "no-parallel disable" is read nowhere.)
NoParallel ==
  /\ Instructed({"no-parallel"})
  /\ LET read == get_to_eol(Text, Instruction.end)
     IN Set(read, [sec EXCEPT !.no_parallel = read.value])

Cpus ==
  /\ Instructed({"cpus"})
  /\ LET read == to_int(get_value(Text, Instruction.end), 1, MaxCpus)
     IN Set(read, [sec EXCEPT !.cpus = read.value])

Nice ==
  /\ Instructed({"nice"})
  /\ LET read == to_int(get_value(Text, Instruction.end), -19, 20)
     IN Set(read, [sec EXCEPT !.nice = read.value])

Verbose ==
  /\ Instructed({"verbose"})
  /\ Set(Read(TRUE, TRUE, Instruction.end), [sec EXCEPT !.verbose = TRUE])

Tool ==
  /\ Instructed(Tools)
  /\ LET read == get_optional_path(Text, Instruction.end)
     IN Set(read, [sec EXCEPT ![Instruction.type] = read.value])

\* Mutant: "distcc-hosts" overrides "distc++-hosts" too.
DistccHostsForBoth ==
  /\ Instructed({"distcc-hosts"})
  /\ LET read == get_to_eol(Text, Instruction.end)
     IN Set(read, [sec EXCEPT !.distcc_hosts = read.value,
                              !.distcplusplus_hosts = read.value])

DistccHosts ==
  /\ Instructed({"distcc-hosts"})
  /\ LET read == get_to_eol(Text, Instruction.end)
         both == [sec EXCEPT !.distcc_hosts = read.value,
                             !.distcplusplus_hosts = read.value]
     IN Set(read, IF sec.distcplusplus_hosts_set
                    THEN [sec EXCEPT !.distcc_hosts = read.value] ELSE both)

\* Mutant: "distc++-hosts" does not remember that it was given.
DistcplusplusHostsForgets ==
  /\ Instructed({"distc++-hosts"})
  /\ LET read == get_to_eol(Text, Instruction.end)
     IN Set(read, [sec EXCEPT !.distcplusplus_hosts = read.value])

DistcplusplusHosts ==
  /\ Instructed({"distc++-hosts"})
  /\ LET read == get_to_eol(Text, Instruction.end)
     IN Set(read, [sec EXCEPT !.distcplusplus_hosts = read.value,
                              !.distcplusplus_hosts_set = TRUE])

Program ==
  /\ Instructed(Names)
  /\ LET read == get_path(Text, Instruction.end)
     IN Set(read, [sec EXCEPT !.names[Instruction.type] = read.value])

AddTo ==
  /\ Instructed({"add"})
  /\ LET to == peek_token(Text, Instruction.end)
         list == IF to.type = "make" THEN "make_add" ELSE "env_add"
         read == get_to_eol(Text, to.end)
     IN IF to.type \in {"make", "env"}
          THEN Set(read, [sec EXCEPT ![list] =
                 IF read.value = {} THEN <<>>
                 ELSE <<CHOOSE x \in read.value : TRUE>> \o @])
          ELSE Die

\* The lock file of every section is opened, of one that does not match too.
LockFile ==
  /\ Instructed({"lock-file"})
  /\ LET read == get_path(Text, Instruction.end)
         file == CHOOSE x \in read.value : TRUE
     IN IF read.ok /\ file \in Locked
          THEN Set(read, [sec EXCEPT !.lock_file = {file}, !.lock_fd = file])
          ELSE Die

\* An include: the file is read to its end, from here.
Include(read, in) ==
  LET file == CHOOSE x \in read.value : TRUE
  IN IF read.ok /\ file \in DOMAIN disk
       THEN /\ stack' = Append(At(read.end), Reader(file, in))
            /\ UNCHANGED <<disk, result, sec, failed>>
       ELSE Die

\* read_section_file
IncludeFragment ==
  /\ Instructed({"include"})
  /\ Include(get_path(Text, Instruction.end), "fragment")

NoInstruction ==
  /\ Reading({"section", "fragment"})
  /\ Peeked.type = "INDENT"
  /\ Instruction.type \notin Keyword \ {"disable", "env"}
  /\ Die

\* Whatever is not indented ends a fragment, and is not looked at.
FragmentEnds ==
  /\ Reading({"fragment"})
  /\ Peeked.type # "INDENT"
  /\ stack' = Front(stack)
  /\ UNCHANGED <<disk, result, sec, failed>>

(***************************************************************************)
(* read_config_file and read_section.                                      *)
(***************************************************************************)
section_matches ==
  \A name \in sec.name : name = "" \/ name \in Matching

SectionEnds ==
  /\ Reading({"section"})
  /\ Peeked.type # "INDENT"
  /\ stack' = [stack EXCEPT ![Len(stack)].in = "file"]
  /\ result' = IF section_matches THEN sec ELSE result
  /\ UNCHANGED <<disk, sec, failed>>

\* Mutant: the include is not swallowed before the file is read.
IncludeFileAgain ==
  /\ Reading({"file"})
  /\ Peeked.type = "include"
  /\ Include([get_path(Text, Peeked.end) EXCEPT !.end = Last(stack).at], "file")

IncludeFile ==
  /\ Reading({"file"})
  /\ Peeked.type = "include"
  /\ Include(get_path(Text, Peeked.end), "file")

\* The header of a section, which starts from the result so far.
Section ==
  /\ Reading({"file"})
  /\ Peeked.type \notin {"include", "END"}
  /\ LET name == peek_token(Text, Peeked.end)
         close == peek_token(Text, name.end)
     IN IF Peeked.type = "[" /\ name.type = "STRING" /\ close.type = "]"
          THEN /\ sec' = [result EXCEPT !.name = {name.word}]
               /\ stack' = [stack EXCEPT ![Len(stack)].in = "section",
                                         ![Len(stack)].at = close.end]
               /\ UNCHANGED <<disk, result, failed>>
          ELSE Die

FileEnds ==
  /\ Reading({"file"})
  /\ Peeked.type = "END"
  /\ stack' = Front(stack)
  /\ result' = [result EXCEPT !.ccache = resolve_path(@, "ccache"),
                              !.distcc = resolve_path(@, "distcc")]
  /\ UNCHANGED <<disk, sec, failed>>

Next ==
  \/ NoParallel \/ Cpus \/ Nice \/ Verbose \/ Tool
  \/ DistccHosts \/ DistcplusplusHosts \/ Program \/ AddTo \/ LockFile
  \/ IncludeFragment \/ NoInstruction \/ FragmentEnds
  \/ SectionEnds \/ IncludeFile \/ Section \/ FileEnds

Spec == Init /\ [][Next]_vars /\ WF_vars(Next)

(***************************************************************************)
(* What ccontrol prints of it when it is called with no command.           *)
(***************************************************************************)
write_item(key, values) ==
  FlattenSeq(SetToSeq({<<"ws">> \o key \o <<"ws", "=", "ws">> \o v \o <<"nl">> :
                         v \in values}))
write_word(key, words) == write_item(<<key>>, {<<w>> : w \in words})
write_flag(key, is) == IF is THEN <<"ws", key, "nl">> ELSE <<>>
\* The word for a number.  How int_to_string writes its digits, which it does
\* right for the cpus and nice values that can be set, is in CommandLine.
int_to_string(n) == {CHOOSE w \in DOMAIN Integer : Integer[w] = n}

\* The lists begin with what was added last.  Mutant: and so does the print.
print_add_backwards(to, add) ==
  FlattenSeq([i \in DOMAIN add |-> write_item(<<"add", to>>, {add[i]})])
print_add(to, add) ==
  FlattenSeq([i \in DOMAIN add |->
                write_item(<<"add", to>>, {Reverse(add)[i]})])

print_section(dir, s) ==
  LET hosts == s.distcc # {} /\ s.distcc_hosts \cup s.distcplusplus_hosts # {}
      Programs == <<"cc", "c++", "make", "ld">>
      quiet == s.no_parallel = {<<>>}
  IN <<"[", dir, "]", "nl">>
     \o FlattenSeq([i \in DOMAIN Programs |->
                      write_word(Programs[i], s.names[Programs[i]])])
     \o write_word("ccache", s.ccache)
     \o (IF ~hosts THEN <<>>
         ELSE write_word("distcc", s.distcc)
              \o write_item(<<"distcc-hosts">>, s.distcc_hosts)
              \o (IF ~s.distcplusplus_hosts_set THEN <<>>
                  ELSE write_item(<<"distc++-hosts">>, s.distcplusplus_hosts)))
     \o print_add("make", s.make_add) \o print_add("env", s.env_add)
     \o write_flag("no-parallel", quiet)
     \o (IF quiet THEN <<>> ELSE write_item(<<"no-parallel">>, s.no_parallel))
     \o (IF s.cpus = 1 THEN <<>> ELSE write_word("cpus", int_to_string(s.cpus)))
     \o write_flag("verbose", s.verbose)
     \o (IF s.nice = 10 THEN <<>> ELSE write_word("nice", int_to_string(s.nice)))
     \o write_word("lock-file", s.lock_file)

(***************************************************************************)
(* Properties.                                                             *)
(***************************************************************************)
\* Every place is inside its text or at its end; only files include files, only
\* sections and fragments include fragments, and a section is open in the
\* innermost file alone.
Nested ==
  /\ stack \in Seq(Range(stack))
  /\ \A i \in DOMAIN stack :
       /\ DOMAIN stack[i] = {"text", "at", "in"}
       /\ IsText(stack[i].text)
       /\ stack[i].in \in {"file", "section", "fragment"}
       /\ stack[i].at \in 1..(Len(stack[i].text) + 1)
       /\ stack[i].in = "fragment" => i > 1 /\ stack[i - 1].in # "file"
       /\ stack[i].in # "fragment" =>
            \A j \in 1..(i - 1) : stack[j].in = "file"

\* The settings of a section: the hosts for C++ are those for C until they are
\* given, and the lock file is open that is named.
AtMostOne(values) == \A x, y \in values : x = y
Settings(s) ==
  /\ DOMAIN s = DOMAIN get_default /\ DOMAIN s.names = Names
  /\ s.verbose \in BOOLEAN /\ s.nice \in -19..20 /\ s.cpus \in 1..MaxCpus
  /\ \A n \in Names : AtMostOne(s.names[n])
  /\ AtMostOne(s.name) /\ AtMostOne(s.ccache) /\ AtMostOne(s.distcc)
  /\ AtMostOne(s.no_parallel) /\ AtMostOne(s.distcc_hosts)
  /\ AtMostOne(s.distcplusplus_hosts)
  /\ s.distcplusplus_hosts_set \/ s.distcplusplus_hosts = s.distcc_hosts
  /\ {s.lock_fd} = IF s.lock_file = {} THEN {Config} ELSE s.lock_file

TypeOK ==
  /\ \A f \in DOMAIN disk : IsText(disk[f])
  /\ failed \in BOOLEAN
  /\ Nested
  /\ Settings(sec) /\ Settings(result)
  /\ failed => stack # <<>>

\* Every step goes forward in the text it is in, or ends it, and leaves the
\* texts that wait for it where they are: no line is read twice, and none
\* again that has been read.
Advances == [][
  LET n == Len(stack)
  IN \/ failed'
     \/ stack' = Front(stack)
     \/ /\ \A i \in 1..(n - 1) : stack'[i] = stack[i]
        /\ stack'[n].text = stack[n].text
        /\ \/ stack'[n].at > stack[n].at
           \/ /\ stack[n].in = "section" /\ stack'[n].in = "file"
              /\ stack'[n].at = stack[n].at
  ]_vars

Done == stack = <<>>

\* What read_config returns is what the files say, read line by line, "as if
\* the contents of the included file were literally inserted": of each
\* setting the last one in the sections that match, the hosts for C++ those
\* of "distc++-hosts" once it is given, the lists of "add" since they were
\* last disabled, and the lock file open that is named.
ReadsAsWritten ==
  Done => LET meaning == Meaning(Inserted(disk))
          IN /\ \A key \in DOMAIN meaning : result[key] = meaning[key]
             /\ {result.lock_fd} = IF result.lock_file = {} THEN {Config}
                                   ELSE result.lock_file

\* A reading fails exactly if some line is wrong, in whatever file and
\* section.  In particular white space is "only relevant if after nl,
\* followed by stuff".
RejectsFaults ==
  /\ failed => Faulty(Inserted(disk))
  /\ Done => ~Faulty(Inserted(disk))

\* What is printed are "the settings which apply in this directory": written
\* into a config file it would set them again.  Three are not shown, or not
\* so: distcc where there are no hosts, "distc++-hosts disable" next to hosts
\* for C, and a no-parallel of no targets, which is shown without its "=".
PrintsWhatApplies ==
  Done =>
    \A dir \in Matching :
      LET print == [f \in {Config} |-> print_section(dir, result)]
          entries == Inserted(print)
          again == Meaning(entries)
          hosts == result.distcc_hosts \cup result.distcplusplus_hosts
          distcc == IF result.distcc # {} /\ hosts # {}
                    THEN {"distcc", "distcc_hosts", "distcplusplus_hosts"}
                    ELSE {}
          others == DOMAIN again \
                      {"distcc", "distcc_hosts", "distcplusplus_hosts"}
      IN \/ result.no_parallel = {<<>>}
         \/ result.distcplusplus_hosts_set /\ result.distcplusplus_hosts = {}
         \/ /\ ~Faulty(entries)
            /\ \A key \in others \cup distcc : again[key] = result[key]

\* Every reading ends: each token is read once, however files include others.
Ends == <>(Done \/ failed)
=============================================================================
