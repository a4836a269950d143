----------------------------- MODULE ConfigText -----------------------------
(***************************************************************************)
(* What the files under ~/.ccontrol say, as ccontrol.1.txt explains them   *)
(* to their author: line by line, an included file standing where it is    *)
(* included, a later entry that applies overriding an earlier one.         *)
(*                                                                         *)
(* A text is a sequence of lexemes: "nl" ends a line, "ws" is a run of     *)
(* blanks, "#", "[", "]" and "=" are themselves, everything else is a      *)
(* word.                                                                   *)
(***************************************************************************)
EXTENDS Integers, Sequences, FiniteSets, SequencesExt, FiniteSetsExt

CONSTANTS
  Disks,      \* what the files may contain: functions from names to texts
  Matching,   \* section headers that fnmatch finds matching the directory
  Integer,    \* words of digits and signs, with what atoi makes of them
  Home,       \* words that begin with ~, with the path they stand for
  Directory,  \* paths of directories, each with the paths of its programs
  Locked      \* paths that can be opened as lock files

\* The file that main opens.
Config == "config"

\* Every disk has the config file and finitely many others, files are texts,
\* and atoi yields numbers.
IsText(text) == text \in Seq(Range(text))
ConstantsOK ==
  /\ \A d \in Disks :
       /\ Config \in DOMAIN d /\ IsFiniteSet(DOMAIN d)
       /\ \A f \in DOMAIN d : IsText(d[f])
  /\ \A w \in DOMAIN Integer : Integer[w] \in Int
ASSUME ConstantsOK

Names == {"cc", "c++", "ld", "make"}
Tools == {"ccache", "distcc"}
Hosts == {"distcc-hosts", "distc++-hosts"}

\* The most processors that cpus can give.
MaxCpus == 1000000

\* get_path: a path that begins with ~ is below $HOME.
Expanded(word) == IF word \in DOMAIN Home THEN Home[word] ELSE word

\* resolve_path: of a directory, the program in it.
resolve_path(paths, tool) ==
  {IF p \in DOMAIN Directory THEN Directory[p][tool] ELSE p : p \in paths}

(***************************************************************************)
(* Entries.  An entry has a key, and a value or none.                      *)
(***************************************************************************)
Entry(key, value) == [key |-> key, value |-> value]
Wrong == Entry("wrong", {})

\* From each place of a text to the end of its line, the words that follow:
\* without blanks, and without a comment.
Words(text) ==
  LET words[p \in 1..(Len(text) + 1)] ==
        IF p > Len(text) \/ text[p] \in {"nl", "#"} THEN <<>>
        ELSE IF text[p] = "ws" THEN words[p + 1]
        ELSE <<text[p]>> \o words[p + 1]
  IN words

\* The places where a line begins that has words.
Starts(text) ==
  {p \in 1..Len(text) :
     (p = 1 \/ text[p - 1] = "nl") /\ Words(text)[p] # <<>>}

\* What stands behind the "=" of the line that begins at p, to its end.
RestOf(text, p) ==
  LET eq == Min({i \in p..Len(text) : text[i] = "="})
      end == Min({i \in (eq + 1)..(Len(text) + 1) :
                    i > Len(text) \/ text[i] = "nl"})
      start == IF eq + 1 < end /\ text[eq + 1] = "ws" THEN eq + 2 ELSE eq + 1
  IN SubSeq(text, start, end - 1)

Within(word, min, max) ==
  word \in DOMAIN Integer /\ Integer[word] \in min..max

\* An entry of a section: w are the words of its line, and behind is what
\* stands behind its "=".
Setting(w, behind) ==
  LET key == w[1]
      alone == Len(w) = 1
      disabled == Len(w) = 2 /\ w[2] = "disable"
      word == Len(w) = 3 /\ w[2] = "="
      rest == Len(w) > 1 /\ w[2] = "="
      adding == key = "add" /\ Len(w) > 2 /\ w[2] \in {"make", "env"}
      list == IF w[2] = "make" THEN "make_add" ELSE "env_add"
      path == Expanded(Last(w))
      number == Integer[Last(w)]
  IN CASE key = "verbose" /\ alone -> Entry(key, {})
       [] key \in Tools \cup Hosts \cup {"no-parallel"} /\ disabled ->
            Entry(key, {})
       [] key \in Hosts \cup {"no-parallel"} /\ rest ->
            Entry(key, {behind})
       [] key \in Names \cup Tools /\ word -> Entry(key, {path})
       [] key = "cpus" /\ word /\ Within(w[3], 1, MaxCpus) ->
            Entry(key, number)
       [] key = "nice" /\ word /\ Within(w[3], -19, 20) ->
            Entry(key, number)
       [] key = "lock-file" /\ word /\ path \in Locked -> Entry(key, {path})
       [] key = "include" /\ word -> Entry(key, path)
       [] adding /\ Len(w) = 3 /\ w[3] = "disable" -> Entry(list, {})
       [] adding /\ w[3] = "=" -> Entry(list, {behind})
       [] OTHER -> Wrong

\* The entry on the line that begins at p.
EntryAt(text, p) ==
  LET w == Words(text)[p]
  IN IF text[p] = "ws" THEN Setting(w, RestOf(text, p))
     ELSE IF Len(w) = 3 /\ w[1] = "[" /\ w[3] = "]" THEN Entry("[", w[2])
     ELSE IF Len(w) = 3 /\ w[1] = "include" /\ w[2] = "="
       THEN Entry("include", Expanded(w[3]))
     ELSE Wrong

\* "The effect is exactly as if the contents of the included file were
\* literally inserted": what an entry stands for, given what the files contain,
\* and the entries of a text from each place of it on.
Expansion(contents, entry) ==
  IF entry.key # "include" THEN <<entry>>
  ELSE IF entry.value \in DOMAIN contents THEN contents[entry.value]
  ELSE <<Wrong>>

EntriesFrom(contents, text) ==
  LET starts == Starts(text)
      after[p \in 1..(Len(text) + 1)] ==
        IF p > Len(text) THEN <<>>
        ELSE IF p \notin starts THEN after[p + 1]
        ELSE Expansion(contents, EntryAt(text, p)) \o after[p + 1]
  IN after

\* The entries of every file, with those of the files it includes.
Contents(disk) ==
  LET contents[f \in DOMAIN disk] == EntriesFrom(contents, disk[f])[1]
  IN contents
Inserted(disk) == Contents(disk)[Config]

(***************************************************************************)
(* The settings that a directory has of a sequence of entries.             *)
(***************************************************************************)
\* The header of the section that entry i is in; 0 if it is in none.
HeaderOf(entries, i) ==
  LET headers == {j \in 1..i : entries[j].key = "["}
  IN IF headers = {} THEN 0 ELSE Max(headers)
Applies(entries, i) ==
  HeaderOf(entries, i) # 0 /\ entries[HeaderOf(entries, i)].value \in Matching

\* Of the entries at some places, those with some key.
Given(entries, places, key) == {i \in places : entries[i].key = key}

\* The last one overrides the others.
LastOf(entries, places, key, default) ==
  LET given == Given(entries, places, key)
  IN IF given = {} THEN default ELSE entries[Max(given)].value

\* "add" collects values, the latest first, until "disable" removes them.
Added(entries, places, key) ==
  LET added[i \in 0..Len(entries)] ==
        IF i = 0 THEN <<>>
        ELSE IF i \notin Given(entries, places, key) THEN added[i - 1]
        ELSE IF entries[i].value = {} THEN <<>>
        ELSE <<CHOOSE x \in entries[i].value : TRUE>> \o added[i - 1]
  IN added[Len(entries)]

MeaningOf(entries, places) ==
  LET last(key, default) == LastOf(entries, places, key, default)
  IN [verbose |-> Given(entries, places, "verbose") # {},
      nice |-> last("nice", 10),
      cpus |-> last("cpus", 1),
      no_parallel |-> last("no-parallel", {}),
      names |-> [n \in Names |-> last(n, {})],
      ccache |-> resolve_path(last("ccache", {}), "ccache"),
      distcc |-> resolve_path(last("distcc", {}), "distcc"),
      distcc_hosts |-> last("distcc-hosts", {}),
      distcplusplus_hosts |->
        IF Given(entries, places, "distc++-hosts") # {}
          THEN last("distc++-hosts", {}) ELSE last("distcc-hosts", {}),
      make_add |-> Added(entries, places, "make_add"),
      env_add |-> Added(entries, places, "env_add"),
      lock_file |-> last("lock-file", {})]

Meaning(entries) ==
  MeaningOf(entries, {i \in DOMAIN entries : Applies(entries, i)})

\* An entry is wrong where it stands: not understood, or outside a section.
Faulty(entries) ==
  \E i \in DOMAIN entries :
    entries[i].key = "wrong" \/ HeaderOf(entries, i) = 0
=============================================================================
