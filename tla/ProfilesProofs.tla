--------------------------- MODULE ProfilesProofs ---------------------------
(***************************************************************************)
(* A call of ccontrol and its config file, for any profiles, any sizes of  *)
(* the buffer and any changes of files and links: suck_file stays in its   *)
(* buffer, a command runs with the configuration in force when it has its  *)
(* lock (but for the windows that raced marks), and nothing begins again   *)
(* without a reason.  Everything follows from IndInv (Profiles).           *)
(***************************************************************************)
EXTENDS Profiles, TLAPS

(***************************************************************************)
(* The steps of main.  None of them changes a file or a link.              *)
(***************************************************************************)
LEMMA CurrentType ==
  ASSUME TypeOK
  PROVE  Current \in Inode \cup {None}
BY ConstantsOK DEF TypeOK, Current

LEMMA CurrentSame ==
  ASSUME UNCHANGED links
  PROVE  Current' = Current
BY DEF links, Current

\* What read() returns is what is left of the file, if there is room for it.
LEMMA ReturnedBounds ==
  ASSUME IndInv, pc = "read"
  PROVE  /\ Returned \in Nat
         /\ buffer.size + Returned <= buffer.max
         /\ Returned > 0 => buffer.size + Returned <= text[fd].len
         /\ buffer.size + Returned # buffer.max =>
              buffer.size + Returned >= text[fd].len
<1>1. /\ buffer.size \in Nat /\ buffer.max \in Nat /\ text[fd].len \in Nat
      /\ buffer.size < buffer.max
  BY DEF IndInv, TypeOK, BufferRoom, Text
<1>2. QED
  BY <1>1 DEF Returned

LEMMA OpenKeeps == ASSUME IndInv, Open PROVE IndInv'
<1> DEFINE c == Current
<1>1. TypeOK'
  <2>1. /\ pc' \in {"failed", "read"} /\ (pc' = "read" => c # None)
        /\ fd' = c /\ buffer' = NoBuffer /\ touched' = FALSE /\ raced' = FALSE
        /\ UNCHANGED <<now, edits, text, written, time, writing, entry, link,
                       applet, init, st>>
    BY DEF Open, Quiet, clock, files, links
  <2>2. c \in Inode \cup {None}
    BY CurrentType DEF IndInv
  <2>3. NoBuffer \in [size : Nat, max : Nat, cap : Nat, seen : SUBSET Nat]
    BY ConstantsOK DEF NoBuffer
  <2> HIDE DEF c
  <2>4. QED
    BY <2>1, <2>2, <2>3 DEF IndInv, TypeOK, Label
<1>2. BufferRoom'
  BY ConstantsOK DEF Open, BufferRoom, NoBuffer
<1>3. ReadKnows'
  BY DEF Open, ReadKnows, NoBuffer
<1>4. Untouched'
  BY CurrentSame DEF Open, Quiet, Untouched
<1>5. QED
  BY <1>1, <1>2, <1>3, <1>4 DEF IndInv

LEMMA ReadMoreKeeps == ASSUME IndInv, ReadMore PROVE IndInv'
<1> DEFINE v == text[fd].version
           n == buffer.size + Returned
<1>1. /\ pc = "read" /\ pc' = "read" /\ Returned > 0 /\ n = buffer.max
      /\ UNCHANGED <<now, edits, text, written, time, writing, entry, link,
                     applet, init, fd, st, touched, raced>>
  BY DEF ReadMore, Quiet, clock, files, links, history
<1>2. /\ Returned \in Nat /\ n <= text[fd].len
      /\ buffer.size \in Nat /\ buffer.max \in Nat
  BY <1>1, ReturnedBounds DEF IndInv, TypeOK
<1>3. /\ v \in Nat /\ buffer.seen \subseteq Nat
      /\ buffer \in [size : Nat, max : Nat, cap : Nat, seen : SUBSET Nat]
  BY <1>1 DEF IndInv, TypeOK, Text
<1>4. buffer' = [size |-> n, max |-> buffer.max * 3, cap |-> buffer.max * 3,
                 seen |-> buffer.seen \cup {v}]
  <2>1. buffer' = Grown([buffer EXCEPT !.size = n,
                                       !.seen = buffer.seen \cup {v}])
    BY DEF ReadMore
  <2> HIDE DEF n, v
  <2>2. QED
    BY <2>1, <1>3 DEF Grown
<1>5. buffer' \in [size : Nat, max : Nat, cap : Nat, seen : SUBSET Nat]
  BY <1>2, <1>3, <1>4
<1>6. TypeOK'
  BY <1>1, <1>5 DEF IndInv, TypeOK, Label
<1>7. BufferRoom'
  BY <1>1, <1>2, <1>4, Returned > 0 DEF BufferRoom
<1>8. raced \/ buffer'.seen = {v}
  <2>1. buffer.seen \subseteq {v} \/ raced
    BY <1>1 DEF IndInv, ReadKnows
  <2>2. QED
    BY <2>1, <1>4
<1>9. ReadKnows'
  BY <1>1, <1>2, <1>4, <1>8 DEF ReadKnows
<1>10. Untouched'
  BY <1>1 DEF IndInv, Untouched, Current
<1>11. QED
  BY <1>6, <1>7, <1>9, <1>10 DEF IndInv

LEMMA ReadLastKeeps == ASSUME IndInv, ReadLast PROVE IndInv'
<1> DEFINE v == text[fd].version
           n == buffer.size + Returned
           s == IF Returned > 0 THEN buffer.seen \cup {v} ELSE buffer.seen
<1>1. /\ pc = "read" /\ pc' \in {"fstat", "failed"}
      /\ s = {} => pc' = "failed"
      /\ Returned = 0 \/ n # buffer.max
      /\ buffer' = [buffer EXCEPT !.size = n, !.seen = s]
      /\ UNCHANGED <<now, edits, text, written, time, writing, entry, link,
                     applet, init, fd, st, touched, raced>>
  BY DEF ReadLast, Quiet, clock, files, links, history
<1>2. /\ Returned \in Nat /\ n <= buffer.max
      /\ Returned > 0 => n <= text[fd].len
      /\ n # buffer.max => n >= text[fd].len
      /\ buffer.size \in Nat /\ buffer.max \in Nat /\ buffer.cap \in Nat
      /\ text[fd].len \in Nat
      /\ buffer.size < buffer.max /\ buffer.max <= buffer.cap
  BY <1>1, ReturnedBounds DEF IndInv, TypeOK, BufferRoom, Text
<1>3. /\ v \in Nat /\ s \subseteq Nat
      /\ buffer \in [size : Nat, max : Nat, cap : Nat, seen : SUBSET Nat]
  BY <1>1 DEF IndInv, TypeOK, Text
<1>4. buffer' = [size |-> n, max |-> buffer.max, cap |-> buffer.cap,
                 seen |-> s]
  <2> HIDE DEF n, s
  <2>1. QED
    BY <1>1, <1>3
<1>5. n \in Nat /\ n < buffer.max /\ n >= text[fd].len
  BY <1>1, <1>2
<1>6. TypeOK'
  <2>1. buffer' \in [size : Nat, max : Nat, cap : Nat, seen : SUBSET Nat]
    BY <1>2, <1>3, <1>4, <1>5
  <2>2. QED
    BY <1>1, <2>1 DEF IndInv, TypeOK, Label
<1>7. BufferRoom'
  BY <1>2, <1>4, <1>5 DEF BufferRoom
<1>8. \/ raced
      \/ s = {}
      \/ s = {v} /\ n = text[fd].len
  <2>1. CASE raced
    BY <2>1
  <2>2. CASE ~raced /\ buffer.size = 0 /\ buffer.seen = {}
    BY <2>2, <1>2, <1>5
  <2>3. CASE buffer.seen = {v} /\ buffer.size \in 1 .. text[fd].len
    BY <2>3, <1>2, <1>5
  <2>4. QED
    BY <1>1, <2>1, <2>2, <2>3 DEF IndInv, ReadKnows
<1>9. ReadKnows'
  <2> HIDE DEF n, s
  <2>1. QED
    BY <1>1, <1>4, <1>8 DEF ReadKnows, HasRead
<1>10. Untouched'
  BY <1>1 DEF IndInv, Untouched, Current
<1>11. QED
  BY <1>6, <1>7, <1>9, <1>10 DEF IndInv

LEMMA FstatKeeps == ASSUME IndInv, Fstat PROVE IndInv'
<1>1. /\ pc = "fstat" /\ pc' = "restat" /\ st' = Stat(fd) /\ fd \in Inode
      /\ time[fd].ctime \in Nat /\ time[fd].mtime \in Nat
      /\ time[fd].ctime <= now
      /\ UNCHANGED <<now, edits, text, written, time, writing, entry, link,
                     applet, init, fd, buffer, touched, raced>>
  BY DEF Fstat, IndInv, TypeOK, Time, Quiet, clock, files, links, history
<1>2. TypeOK'
  BY <1>1 DEF IndInv, TypeOK, Label, Stat
<1>3. ReadKnows'
  BY <1>1 DEF IndInv, ReadKnows, HasRead, Stat
<1>4. Untouched'
  BY <1>1 DEF IndInv, Untouched, Current, Stat
<1>5. QED
  BY <1>1, <1>2, <1>3, <1>4 DEF IndInv, BufferRoom

\* The other steps leave the call where it knows nothing of any file.
LEMMA RestKeeps ==
  ASSUME IndInv, Call \/ Altered \/ Unaltered \/ Ends
  PROVE  IndInv'
<1>1. /\ pc' \in {"open", "run", "idle"}
      /\ fd' \in {fd, None} /\ buffer' \in {buffer, NoBuffer}
      /\ st' \in {st, NoStat}
      /\ touched' \in {touched, FALSE} /\ raced' \in {raced, FALSE}
      /\ UNCHANGED <<now, edits, text, written, time, writing, entry, link,
                     applet, init>>
  BY DEF Call, Altered, Unaltered, Ends, Quiet, clock, files, links, history
<1>2. TypeOK' /\ BufferRoom'
  <2>1. /\ NoBuffer \in [size : Nat, max : Nat, cap : Nat, seen : SUBSET Nat]
        /\ NoBuffer.size < NoBuffer.max /\ NoBuffer.max <= NoBuffer.cap
    BY ConstantsOK DEF NoBuffer
  <2>2. NoStat \in [ino : Inode \cup {None}, mtime : Nat, ctime : Nat]
    BY DEF NoStat
  <2>3. BufferRoom'
    BY <1>1, <2>1 DEF IndInv, BufferRoom
  <2>4. /\ fd' \in Inode \cup {None}
        /\ buffer' \in [size : Nat, max : Nat, cap : Nat, seen : SUBSET Nat]
        /\ st' \in [ino : Inode \cup {None}, mtime : Nat, ctime : Nat]
        /\ touched' \in BOOLEAN /\ raced' \in BOOLEAN
        /\ pc' \in Label /\ pc' \notin {"read", "fstat", "restat"}
    BY <1>1, <2>1, <2>2 DEF IndInv, TypeOK, Label
  <2>5. QED
    BY <1>1, <2>3, <2>4 DEF IndInv, TypeOK
<1>3. ReadKnows' /\ Untouched'
  BY <1>1 DEF ReadKnows, Untouched
<1>4. QED
  BY <1>2, <1>3 DEF IndInv

(***************************************************************************)
(* The steps of the others.                                                *)
(***************************************************************************)

\* Whatever becomes of names and links, a call keeps what it knows as long as
\* the files change by Put alone, or not at all.
LEMMA EditedKeeps ==
  ASSUME IndInv, Edited, TypeOK',
         \/ UNCHANGED <<text, time, raced>>
         \/ \E i \in Inode, len \in Nat, mtime \in Nat : Put(i, len, mtime)
  PROVE  IndInv'
<1>1. /\ touched' = TRUE
      /\ UNCHANGED <<now, pc, fd, buffer, st>>
  BY DEF Edited, call
<1>2. BufferRoom' /\ Untouched'
  BY <1>1 DEF IndInv, BufferRoom, Untouched
<1>3. ReadKnows'
  <2>1. CASE UNCHANGED <<text, time, raced>>
    BY <1>1, <2>1 DEF IndInv, ReadKnows, HasRead
  <2>2. CASE \E i \in Inode, len \in Nat, mtime \in Nat : Put(i, len, mtime)
    <3>1. PICK i \in Inode, len \in Nat, mtime \in Nat : Put(i, len, mtime)
      BY <2>2
    <3>2. /\ fd # i => text'[fd] = text[fd] /\ time'[fd] = time[fd]
          /\ fd = i => time'[fd].ctime = now
          /\ raced' = (raced \/ Races(i))
      BY <3>1 DEF Put, IndInv, TypeOK
    <3>3. CASE fd # i
      BY <1>1, <3>2, <3>3 DEF IndInv, ReadKnows, HasRead, Races
    <3>4. CASE fd = i /\ pc = "restat"
      BY <1>1, <3>2, <3>4 DEF IndInv, ReadKnows, Races
    <3>5. CASE fd = i /\ pc = "read"
      <4>1. \/ raced
            \/ buffer.size = 0 /\ buffer.seen = {}
            \/ buffer.size \in 1 .. text[fd].len
        BY <3>5 DEF IndInv, ReadKnows
      <4>2. text[fd].len \in Nat
        BY <3>5 DEF IndInv, TypeOK, Text
      <4>3. \/ raced
            \/ Races(i)
            \/ buffer.size = 0 /\ buffer.seen = {}
        BY <3>5, <4>1, <4>2 DEF Races
      <4>4. \/ raced'
            \/ buffer.size = 0 /\ buffer.seen = {}
        BY <3>2, <4>3
      <4>5. QED
        BY <1>1, <3>5, <4>4 DEF ReadKnows
    <3>6. CASE fd = i /\ pc \notin {"read", "restat"}
      BY <1>1, <3>2, <3>6 DEF ReadKnows, Races
    <3>7. QED
      BY <3>3, <3>4, <3>5, <3>6
  <2>3. QED
    BY <2>1, <2>2
<1>4. QED
  BY <1>2, <1>3 DEF IndInv

\* What Put and Edited leave well-typed.
LEMMA PutTypes ==
  ASSUME TypeOK, Edited, NEW i \in Inode, NEW len \in Nat, NEW mtime \in Nat,
         Put(i, len, mtime)
  PROVE  /\ text' \in [Inode -> Text]
         /\ time' \in [Inode -> Time]
         /\ \A j \in Inode : time'[j].ctime <= now
         /\ raced' \in BOOLEAN
<1>1. edits + 1 \in Nat /\ now \in Nat /\ now <= now
  BY DEF TypeOK
<1>2. text' \in [Inode -> Text]
  BY <1>1 DEF TypeOK, Put, Text
<1>3. time' \in [Inode -> Time]
  BY <1>1 DEF TypeOK, Put, Time
<1>4. \A j \in Inode : time'[j].ctime <= now
  BY <1>1 DEF TypeOK, Put, Time
<1>5. raced' = (raced \/ Races(i)) /\ raced \in BOOLEAN
  BY DEF TypeOK, Put
<1>6. raced' \in BOOLEAN
  BY <1>5 DEF Races
<1>7. QED
  BY <1>2, <1>3, <1>4, <1>6

LEMMA OthersKeep == ASSUME IndInv, Others PROVE IndInv'
<1> USE DEF IndInv
<1>1. TypeOK /\ Edited /\ edits' \in Nat /\ edits + 1 \in Nat /\ now \in Nat
  BY DEF Others, Truncate, Extend, Finish, Rename, AppletUnlink,
         AppletSymlink, InitMove, InitCreate, InitLink, Edited, TypeOK
<1>2. /\ touched' = TRUE
      /\ UNCHANGED <<now, pc, fd, buffer, st>>
  BY <1>1 DEF Edited, call
<1>3. CASE Truncate
  <2>1. PICK n \in Name : entry[n] # None /\ Put(entry[n], 0, now)
                          /\ writing' = entry[n]
    BY <1>3 DEF Truncate
  <2>2. entry[n] \in Inode
    BY <1>1, <2>1 DEF TypeOK
  <2>3. TypeOK'
    BY <1>1, <1>2, <1>3, <2>1, <2>2, PutTypes DEF TypeOK, Truncate, links
  <2>4. QED
    BY <1>1, <2>1, <2>2, <2>3, EditedKeeps
<1>4. CASE Extend
  <2>1. /\ writing \in Inode /\ text[writing].len + 1 \in Nat
        /\ Put(writing, text[writing].len + 1, now)
    BY <1>1, <1>4 DEF Extend, TypeOK, Text
  <2>2. TypeOK'
    BY <1>1, <1>2, <1>4, <2>1, PutTypes DEF TypeOK, Extend, links
  <2>3. QED
    BY <1>1, <2>1, <2>2, EditedKeeps
<1>5. CASE Finish
  <2>1. writing \in Inode
    BY <1>1, <1>5 DEF Finish, TypeOK
  <2>2. PICK len \in 1 .. MaxLen, mtime \in {0, now} :
               Put(writing, len, mtime)
    BY <1>5 DEF Finish
  <2>3. len \in Nat /\ mtime \in Nat
    BY <1>1, ConstantsOK
  <2>4. TypeOK'
    BY <1>1, <1>2, <1>5, <2>1, <2>2, <2>3, PutTypes DEF TypeOK, Finish
  <2>5. QED
    BY <1>1, <2>1, <2>2, <2>3, <2>4, EditedKeeps
<1>6. CASE Rename
  <2>1. PICK i \in Inode, n \in Name, len \in 1 .. MaxLen :
               Put(i, len, now) /\ entry' = [entry EXCEPT ![n] = i]
    BY <1>6 DEF Rename
  <2>2. len \in Nat
    BY ConstantsOK
  <2>3. TypeOK'
    BY <1>1, <1>2, <1>6, <2>1, <2>2, PutTypes DEF TypeOK, Rename
  <2>4. QED
    BY <1>1, <2>1, <2>2, <2>3, EditedKeeps
<1>7. CASE AppletUnlink \/ AppletSymlink \/ InitMove \/ InitLink
  <2>1. UNCHANGED <<text, time, writing, raced, written>>
    BY <1>7 DEF AppletUnlink, AppletSymlink, InitMove, InitLink, files
  <2>2. /\ entry' \in [Name -> Inode \cup {None}]
        /\ link' \in Name \cup {None} /\ applet' \in Name \cup {None}
        /\ init' \in {"idle", "create", "writing", "link"}
    BY <1>1, <1>7, ConstantsOK
       DEF AppletUnlink, AppletSymlink, InitMove, InitLink, TypeOK
  <2>3. TypeOK'
    BY <1>1, <1>2, <2>1, <2>2 DEF TypeOK
  <2>4. QED
    BY <1>1, <2>1, <2>3, EditedKeeps
<1>8. CASE InitCreate
  <2>1. PICK i \in Inode : /\ Put(i, 1, now) /\ writing' = i
                           /\ entry' = [entry EXCEPT ![Default] = i]
    BY <1>8 DEF InitCreate
  <2>2. TypeOK'
    BY <1>1, <1>2, <1>8, <2>1, PutTypes DEF TypeOK, InitCreate
  <2>3. QED
    BY <1>1, <2>1, <2>2, EditedKeeps
<1>9. QED
  BY <1>3, <1>4, <1>5, <1>6, <1>7, <1>8 DEF Others

LEMMA TickKeeps == ASSUME IndInv, Tick PROVE IndInv'
<1>1. /\ now' \in Nat /\ now \in Nat /\ now < now'
      /\ UNCHANGED <<edits, text, written, time, writing, entry, link, applet,
                     init, pc, fd, buffer, st, touched, raced>>
  BY DEF Tick, IndInv, TypeOK, files, links, call, history
<1>2. TypeOK'
  BY <1>1 DEF IndInv, TypeOK, Time
<1>3. ReadKnows'
  BY <1>1 DEF IndInv, TypeOK, ReadKnows, HasRead
<1>4. QED
  BY <1>1, <1>2, <1>3 DEF IndInv, BufferRoom, Untouched, Current, Stat

LEMMA StutterKeeps == ASSUME IndInv, UNCHANGED vars PROVE IndInv'
BY DEF IndInv, TypeOK, BufferRoom, ReadKnows, Untouched, HasRead, Stat,
       Current, vars, clock, files, links, call, history

(***************************************************************************)
(* Every reachable state satisfies the invariant.                          *)
(***************************************************************************)
THEOREM Invariance == Spec => []IndInv
<1>1. Init => IndInv
  <2> SUFFICES ASSUME Init PROVE IndInv
    OBVIOUS
  <2>1. /\ NoBuffer \in [size : Nat, max : Nat, cap : Nat, seen : SUBSET Nat]
        /\ NoBuffer.size < NoBuffer.max /\ NoBuffer.max <= NoBuffer.cap
    BY ConstantsOK DEF NoBuffer
  <2>2. NoStat \in [ino : Inode \cup {None}, mtime : Nat, ctime : Nat]
    BY DEF NoStat
  <2>3. /\ text \in [Inode -> Text] /\ time \in [Inode -> Time]
        /\ \A i \in Inode : time[i].ctime <= now
        /\ entry \in [Name -> Inode \cup {None}] /\ link \in Name
    BY ConstantsOK DEF Init, Text, Time
  <2>4. /\ now \in Nat /\ edits \in Nat /\ written \subseteq Nat
        /\ applet \in Name \cup {None} /\ writing \in Inode \cup {None}
        /\ init = "idle" /\ pc = "idle" /\ fd \in Inode \cup {None}
        /\ buffer = NoBuffer /\ st = NoStat
    BY DEF Init
  <2>5. TypeOK
    <3>1. touched \in BOOLEAN /\ raced \in BOOLEAN
      BY DEF Init
    <3>2. QED
      BY <2>1, <2>2, <2>3, <2>4, <3>1 DEF TypeOK, Label
  <2>6. QED
    BY <2>1, <2>4, <2>5 DEF IndInv, BufferRoom, ReadKnows, Untouched
<1>2. IndInv /\ [Next]_vars => IndInv'
  BY OpenKeeps, ReadMoreKeeps, ReadLastKeeps, FstatKeeps, RestKeeps,
     OthersKeep, TickKeeps, StutterKeeps DEF Next, Main
<1>3. QED
  BY <1>1, <1>2, PTL DEF Spec

\* Every reachable state has its type: times never run ahead of the clock,
\* and a call that reads has a file open (ccontrol.c:350-404).
THEOREM TypeCorrect == Spec => []TypeOK
<1>1. IndInv => TypeOK
  BY DEF IndInv
<1>2. QED
  BY <1>1, Invariance, PTL

\* Whatever the size of the file, and however it changes while it is read,
\* suck_file has room for what it reads and for the byte that ends it
\* (stdrusty.c:80-108).
THEOREM BufferSafe == Spec => []BufferFits
<1>1. IndInv => BufferFits
  BY DEF IndInv, TypeOK, BufferRoom, BufferFits
<1>2. QED
  BY <1>1, Invariance, PTL

\* A command runs with the configuration in force when it has its lock, unless
\* raced says that the change was in one of two windows (ccontrol.c:364, 398).
THEOREM CurrentUnlessRaced == Spec => RunsWithCurrent
<1>1. IndInv /\ [Next]_vars =>
        [pc = "restat" /\ pc' = "run" /\ ~raced /\ Current # None
           => HasRead(Current)]_vars
  <2> SUFFICES ASSUME IndInv, Next, pc = "restat", pc' = "run", ~raced,
                      Current # None
               PROVE  HasRead(Current)
    OBVIOUS
  <2>1. Unaltered
    BY DEF Next, Main, Others, Call, Open, ReadMore, ReadLast, Fstat, Altered,
           Ends, Tick, Edited, Truncate, Extend, Finish, Rename, AppletUnlink,
           AppletSymlink, InitMove, InitCreate, InitLink, call
  <2>2. Current = fd /\ st.ctime = time[fd].ctime
    BY <2>1 DEF Unaltered, file_altered, Stat, IndInv, ReadKnows
  <2>3. QED
    BY <2>2 DEF IndInv, ReadKnows
<1>2. QED
  BY <1>1, Invariance, PTL DEF Spec, RunsWithCurrent

\* goto again only if something has changed since open (ccontrol.c:398-404).
THEOREM RestartsHaveReasons == Spec => RestartsOnChange
<1>1. IndInv /\ [Next]_vars =>
        [pc = "restat" /\ pc' = "open" => touched]_vars
  <2> SUFFICES ASSUME IndInv, Next, pc = "restat", pc' = "open", ~touched
               PROVE  FALSE
    BY DEF IndInv, TypeOK
  <2>1. Altered
    BY DEF Next, Main, Others, Call, Open, ReadMore, ReadLast, Fstat,
           Unaltered, Ends, Tick, Edited, Truncate, Extend, Finish, Rename,
           AppletUnlink, AppletSymlink, InitMove, InitCreate, InitLink, call
  <2>2. Current = fd /\ st = Stat(fd) /\ fd # None
    BY ConstantsOK DEF IndInv, Untouched, TypeOK
  <2>3. QED
    BY <2>1, <2>2 DEF Altered, file_altered
<1>2. QED
  BY <1>1, Invariance, PTL DEF Spec, RestartsOnChange
=============================================================================
