---------------------------- MODULE ConfigReading ----------------------------
(***************************************************************************)
(* Under which conditions on the files what ccontrol-parse.c reads, or     *)
(* rejects, is what ConfigText says of them, and the invariant that        *)
(* explains why: at every moment the files are the entries that have been  *)
(* read and those that are left to the readers on the stack, and the       *)
(* settings mean the former; until a wrong entry is reached, from which    *)
(* the reading does not recover.                                           *)
(***************************************************************************)
EXTENDS Config

(***************************************************************************)
(* Legible files.                                                          *)
(***************************************************************************)
\* The type of the token that a word becomes.
Marks == {"[", "]", "="}
TypeOf(word) ==
  IF word \in Marks \cup Keyword THEN word
  ELSE IF word \in DOMAIN Integer THEN "NUMBER" ELSE "STRING"

\* The layout: a line ends each text, blanks stand before a word or a comment
\* or alone on their line.
Tidy(text) ==
  /\ "" \notin Range(text)
  /\ text = <<>> \/ text[Len(text)] = "nl"
  /\ \A i \in 1..(Len(text) - 1) :
       text[i] = "ws" =>
         /\ text[i + 1] # "ws"
         /\ text[i + 1] = "nl" => i = 1 \/ text[i - 1] = "nl"

\* The lines with words from a place on.
Ahead(text, from) == {p \in Starts(text) : p >= from}
NotIndented(text, from) ==
  Ahead(text, from) = {} \/ text[Min(Ahead(text, from))] # "ws"

\* The line that begins at p is right, and no value in it is spelled like a
\* keyword, or a path like a number.
Spelled(text, p) ==
  LET w == Words(text)[p]
      entry == EntryAt(text, p)
      strings == Names \cup Tools \cup {"lock-file", "include"}
  IN /\ entry.key # "wrong"
     /\ entry.key \in {"cpus", "nice"} => TypeOf(Last(w)) = "NUMBER"
     /\ entry.key \in strings /\ Len(w) = 3 => TypeOf(Last(w)) = "STRING"
     /\ entry.key = "[" => TypeOf(w[2]) = "STRING"

\* Or it is wrong, and no other line is read in it: no header or include begins
\* in it, no file is included before its end, and the line behind it begins
\* with blanks or with a word that continues none.
Beginnings == {"ws", "["} \cup (Keyword \ {"disable", "make", "env"})
Misspelled(text, p) ==
  LET w == Words(text)[p]
      next == Ahead(text, p + 1)
  IN /\ EntryAt(text, p).key = "wrong"
     /\ \A i \in 2..Len(w) : w[i] \notin {"[", "include"}
     /\ w[1] = "include" => Len(w) <= 3
     /\ next # {} => text[Min(next)] \in Beginnings

\* A file of sections, in which no entry stands outside a section of the file
\* itself, and a fragment, which has only entries of a section.
OfSections(text) ==
  /\ NotIndented(text, 1)
  /\ \A p \in Starts(text) : text[p] = "include" => NotIndented(text, p + 1)
OfEntries(text) ==
  \A p \in Starts(text) : text[p] = "ws" /\ EntryAt(text, p).key # "wrong"

\* Sections include fragments, and files include files of sections.
IncludesRight(files, text) ==
  \A p \in Starts(text) :
    LET entry == EntryAt(text, p)
    IN entry.key = "include" /\ entry.value \in DOMAIN files =>
         IF text[p] = "ws" THEN OfEntries(files[entry.value])
                           ELSE OfSections(files[entry.value])

\* No file includes itself, directly or through others.
IncludedBy(text) ==
  {EntryAt(text, p).value :
     p \in {q \in Starts(text) : EntryAt(text, q).key = "include"}}
Acyclic(files) ==
  LET inclusions == UNION {{f} \X IncludedBy(files[f]) : f \in DOMAIN files}
  IN \A some \in SUBSET DOMAIN files :
       some # {} => \E f \in some : \A g \in some : <<f, g>> \notin inclusions

Legible(files) ==
  /\ OfSections(files[Config])
  /\ \A f \in DOMAIN files :
       /\ Tidy(files[f]) /\ IncludesRight(files, files[f])
       /\ \A p \in Starts(files[f]) :
            Spelled(files[f], p) \/ Misspelled(files[f], p)
  /\ Acyclic(files)

\* The program in a directory is not a directory.
NoNesting ==
  \A p \in DOMAIN Directory, tool \in Tools :
    Directory[p][tool] \notin DOMAIN Directory

(***************************************************************************)
(* What is left to read.                                                   *)
(***************************************************************************)
Rest(files, reader) == EntriesFrom(Contents(files), reader.text)[reader.at]
Unread(files, readers) ==
  LET unread[i \in 0..Len(readers)] ==
        IF i = 0 THEN <<>> ELSE Rest(files, readers[i]) \o unread[i - 1]
  IN unread[Len(readers)]

\* A reader is at the beginning of its text or somewhere behind the last word
\* of a line, and one that waits in a file for another is before a line that is
\* not indented.
Between(text, at) ==
  at = 1 \/ (text[at - 1] # "nl" /\ Words(text)[at] = <<>>)
InPlace(files, reader) ==
  /\ \E f \in DOMAIN files : reader.text = files[f]
  /\ Between(reader.text, reader.at)
  /\ IF reader.in = "fragment" THEN OfEntries(reader.text)
                               ELSE OfSections(reader.text)
  /\ reader.in = "file" => NotIndented(reader.text, reader.at)

(***************************************************************************)
(* What has been read.                                                     *)
(***************************************************************************)
\* The settings s mean the entries at some places.
Means(entries, places, s) ==
  LET meaning == MeaningOf(entries, places)
  IN /\ \A key \in DOMAIN meaning \ Tools : s[key] = meaning[key]
     /\ \A tool \in Tools : resolve_path(s[tool], tool) = meaning[tool]
     /\ s.distcplusplus_hosts_set <=>
          Given(entries, places, "distc++-hosts") # {}

\* Of the first n entries, those that apply.
Applying(entries, n) == {i \in 1..n : Applies(entries, i)}

\* The result means what applies of the first n entries; or, in a section, of
\* those before it, and the section those and what has been read of itself.
Collected(entries, n, in) ==
  LET h == HeaderOf(entries, n)
  IN IF in = "file" THEN Means(entries, Applying(entries, n), result)
     ELSE /\ h # 0 /\ sec.name = {entries[h].value} /\ "" \notin sec.name
          /\ Means(entries, Applying(entries, h - 1), result)
          /\ Means(entries, Applying(entries, h - 1) \cup h..n, sec)

Resolved(s) == \A tool \in Tools : resolve_path(s[tool], tool) = s[tool]

Follows ==
  LET entries == Inserted(disk)
      n == Len(entries) - Len(Unread(disk, stack))
  IN /\ ~failed /\ n \in Nat
     /\ \A i \in DOMAIN stack : InPlace(disk, stack[i])
     /\ Unread(disk, stack) = SubSeq(entries, n + 1, Len(entries))
     /\ \A i \in 1..n : entries[i].key # "wrong" /\ HeaderOf(entries, i) # 0
     /\ Collected(entries, n, IF Done THEN "file" ELSE Last(stack).in)
     /\ Done => Resolved(result)

(***************************************************************************)
(* What is rejected.                                                       *)
(***************************************************************************)
\* What comes next in a file or a section is none of what can come there: a
\* section ends before it, and the file is rejected at it.
Doomed(readers) ==
  LET r == Last(readers)
  IN /\ readers # <<>> /\ r.in \in {"file", "section"}
     /\ peek_token(r.text, r.at).type \notin {"INDENT", "[", "include", "END"}

Rejects == Faulty(Inserted(disk)) /\ (failed \/ Doomed(stack))

ReadingInv == TypeOK /\ (Legible(disk) /\ NoNesting => Follows \/ Rejects)
=============================================================================
