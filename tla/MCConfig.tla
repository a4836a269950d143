------------------------------ MODULE MCConfig ------------------------------
(* Instances of Config for TLC: the texts that are read.                   *)
EXTENDS ConfigReading, TLC

\* Lines of words; an indented one has blanks before each word.
Indented(words) == FlattenSeq([i \in DOMAIN words |-> <<"ws", words[i]>>])
Header(name) == <<"[", name, "]">>
IncludeLine(file) == <<"include", "ws", "=", "ws", file>>
Written(lines) == FlattenSeq([i \in DOMAIN lines |-> Append(lines[i], "nl")])

OnlyConfig(text) == "config" :> text

\* Two sections with two and one entries, for one topic at a time.
Sections(entries, between) ==
  {OnlyConfig(Written(<<Header(h[1]), e[1], m, Header(h[2]), e[2]>>)) :
     h \in [1..2 -> {"*", "/b"}], e \in [1..2 -> entries], m \in between}

HostEntries == {Indented(w) : w \in
  {<<"distcc-hosts", "=", "a">>, <<"distcc-hosts", "=", "b", "#", "c">>,
   <<"distcc-hosts", "disable">>, <<"distc++-hosts", "=", "a">>,
   <<"distc++-hosts", "disable">>}}

AddEntries == {Indented(w) : w \in
  {<<"add", "make", "=", "-k">>, <<"add", "make", "=", "disable", "=">>,
   <<"add", "make", "disable">>, <<"add", "env", "=", "A", "=", "1">>,
   <<"add", "env", "disable">>, <<"add", "cc", "=", "-k">>}}

NumberEntries == {Indented(w) : w \in
  {<<"cpus", "=", n>> : n \in {"0", "1", "1000000", "1000001", "/bin/x"}} \cup
  {<<"nice", "=", n>> : n \in {"-20", "-19", "20", "21"}}}

PathEntries == {Indented(w) : w \in
  {<<k, "=", p>> : k \in {"cc", "ccache"}, p \in {"/bin/x", "~/x", "/opt"}}
     \cup
  {<<"distcc", "=", "/opt">>, <<"distcc", "disable">>, <<"cc", "disable">>,
   <<"lock-file", "=", "~/x">>, <<"lock-file", "=", "/etc/x">>,
   <<"no-parallel", "=", "*">>, <<"no-parallel", "disable">>}}

\* Where lines begin and end: comments, empty lines, and blanks in them.
EmptyLines == {<<>>, <<"ws">>, <<"#", "[", "/b">>, <<"ws", "#", "cc">>}
LayoutLines == EmptyLines \cup
  {<<"ws", "verbose", "ws", "#", "disable">>, <<"ws", "verbose">>,
   <<"ws", "/bin/x">>, <<"verbose">>,
   <<"ws", "cc", "=", "/bin/x", "ws", "#">>,
   <<"[", "ws", "/b", "ws", "]", "ws", "#">>}
Layouts ==
  {OnlyConfig(Written(<<first, Header(h), l[1], l[2]>>)) :
     first \in EmptyLines, h \in {"*", "/b"}, l \in [1..2 -> LayoutLines]}

\* Files included at file level, which consist of sections, and in sections,
\* which consist of entries.
Fragment(file) == Indented(<<"include", "=", file>>)
Cc(path) == Indented(<<"cc", "=", path>>)
Included ==
  [all |-> Written(<<IncludeLine("more"), Header("*"),
                     Indented(<<"ccache", "=", "/opt">>), Fragment("frag")>>),
   more |-> Written(<<<<"#">>, Header("*"), Cc("~/x"), Header("/b"),
                      Indented(<<"ccache", "=", "~/x">>)>>),
   none |-> <<>>,
   frag |-> Written(<<<<"#">>, Fragment("frags"), <<"ws">>, Cc("/opt"), <<>>>>),
   frags |-> Written(<<Cc("/bin/x"), Indented(<<"cpus", "=", "1000000">>)>>)]
FileParts ==
  {<<IncludeLine(f)>> : f \in {"all", "more", "none", "missing"}} \cup
  {<<Header(h), Fragment("frag"), Cc("/bin/y")>> : h \in {"*", "/b"}} \cup
  {<<Header("/b"), Fragment(f)>> : f \in {"none", "missing"}} \cup
  {<<Header("*"), Cc("/bin/y"), Fragment("frags")>>}
Includes ==
  {OnlyConfig(Written(p[1] \o p[2] \o p[3])) @@ Included :
     p \in [1..3 -> FileParts]}

Verbosely == {Indented(<<"verbose">>)}
Texts ==
  Sections(HostEntries, HostEntries) \cup Sections(AddEntries, AddEntries) \cup
  Sections(NumberEntries, Verbosely) \cup Sections(PathEntries, Verbosely) \cup
  Layouts \cup Includes

\* Blanks where nothing follows.
Trailing ==
  {OnlyConfig(Written(<<Header("*") \o b, Cc("/bin/x") \o c>>) \o d) :
     b, c, d \in {<<>>, <<"ws">>}}

Numbers == ("0" :> 0) @@ ("1" :> 1) @@ ("1000000" :> 1000000) @@
  ("1000001" :> 1000001) @@ ("-20" :> -20) @@ ("-19" :> -19) @@ ("20" :> 20) @@
  ("21" :> 21)
Homes == "~/x" :> "/home/x"
Directories == "/opt" :> [ccache |-> "/opt/ccache", distcc |-> "/opt/distcc"]
=============================================================================
