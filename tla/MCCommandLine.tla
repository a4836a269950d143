--------------------------- MODULE MCCommandLine ---------------------------
(* Instances of CommandLine for TLC: commands, sections and environments.  *)
EXTENDS CommandLine, TLC

Line(kinds) == [i \in DOMAIN kinds |-> Word(kinds[i], <<i>>)]
Called(programs, rests) ==
  {Line(<<p>> \o r) : p \in programs, r \in rests}
UpTo(n, kinds) == UNION {[1..k -> kinds] : k \in 0..n}

\* Compiles: every three of these options, and longer ones of those that take
\* an argument or may be given once.
Options == {"-E", "-M", "-MD", "-MF", "-Wa,-a", "-c", "-o", "-ofile", "-w",
            "source", "object"}
Compiles == Called({"cc"}, UpTo(3, Options)) \cup
            Called({"cc"},
                   [1..4 -> {"-c", "-o", "-MF", "source", "object"}]) \cup
            Called({"c++"}, UpTo(2, {"-S", "-o", "source"}))

Makes == Called({"make"}, UpTo(3, {"goal", "-j", "-w", "assign"}))
Others == Called({"ld", "other"}, UpTo(1, {"object"}))

\* ccontrol's own name in front, and its options.
Section1 == Word("--section=", <<1>>)
Version == Word("--version", <<>>)
Self == Word("ccontrol", <<0>>)
Fronts == {<<Self>>, <<Self, Section1>>}
Asks == {f \o l : f \in Fronts,
           l \in {<<>>, <<Version>>} \cup Others \cup
                Called({"make"}, UpTo(2, {"goal", "-j"})) \cup
                Called({"cc", "c++"}, {<<"-c", "source">>, <<"source">>})}

TheLines == Compiles \cup Makes \cup Others \cup Asks

-----------------------------------------------------------------------------

Path(n) == {Word("path", <<n>>)}
Dir(n) == {Word("dir", <<n>>)}
Numbered == ("cc" :> 21) @@ ("c++" :> 22) @@ ("ld" :> 23) @@ ("make" :> 24)

Plain ==
  [names |-> [t \in {"cc", "c++", "ld", "make"} |-> Path(Numbered[t])],
   ccache |-> {}, distcc |-> {},
   distcc_hosts |-> {}, distcplusplus_hosts |-> {},
   no_parallel |-> {}, cpus |-> 1, make_add |-> <<>>, env_add |-> <<>>]
Distcc == [Plain EXCEPT !.distcc = Path(25), !.distcc_hosts = {"hosts"}]
Cached == [Distcc EXCEPT !.ccache = Path(26),
                         !.distcplusplus_hosts = {"c++hosts"},
                         !.make_add = [i \in 1..3 |-> Word("goal", <<i>>)]]

Adding == [Distcc EXCEPT !.names["make"] = Dir(27), !.names["c++"] = {},
             !.distcplusplus_hosts = {"c++hosts"}, !.cpus = 499999,
             !.make_add = <<Word("goal", <<9>>), Word("-w", <<8>>)>>,
             !.env_add = <<<<"CC", "b">>, <<"TMP", "a">>, <<"CC", "a">>>>]
Serial == [Cached EXCEPT !.cpus = 50000, !.env_add = <<<<"CC">>>>,
             !.no_parallel = {{Word("goal", <<i>>) : i \in {2, 3}}}]
Never == [Plain EXCEPT !.no_parallel = {{}}, !.env_add = <<<<"TMP", "c">>>>]

\* The working directory and the section that may be asked for.
Here(s, t) == (<<0>> :> s) @@ (<<1>> :> t)
TheConfigs == {Here(Plain, Adding), Here(Distcc, Cached), Here(Cached, Distcc),
               Here(Adding, Plain), Here(Serial, Never), Here(Never, Serial)}

Shell == [v \in {"MAKE", "MAKEFLAGS", "DISTCC_HOSTS", "DISTCC_FALLBACK",
                 "CCACHE_PREFIX", "CCONTROL_LOCK_FD", "CC", "TMP"} |-> Unset]
TheEnvirons == {[Shell EXCEPT !["CC"] = "own"],
                [Shell EXCEPT !["MAKEFLAGS"] = "--jobserver-fds"],
                [Shell EXCEPT !["CCACHE_PREFIX"] = "ccontrol",
                              !["CCONTROL_LOCK_FD"] = "fd"]}
HereDir == <<0>>
=============================================================================
