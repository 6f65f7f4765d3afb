---------------------------- MODULE MCReactAgent ----------------------------
EXTENDS ReactAgent

\* A coder, and an agent with every tool, on the same files
MCTools == [a \in Agents |-> IF a = "coder" THEN Coder ELSE Full]
MCMaxIterations == [a \in Agents |-> IF a = "coder" THEN 2 ELSE 1]
MCInitial == [p \in Paths |-> IF p = "f" THEN "old" ELSE Absent]
MCInputFiles == [a \in Agents |-> IF a = "coder" THEN <<"o", "f">> ELSE <<>>]

\* "new" leaves what it does not cover of "big".
MCOverlaid == [cd \in Contents \X Contents |-> IF cd = <<"new", "big">> THEN "mix" ELSE cd[1]]

\* sort writes a file, find removes one, tail follows one.
MCEffects == [command \in AllowList |->
    CASE command = "sort" -> {[path |-> "g", content |-> "old"]}
      [] command = "find" -> {[path |-> "f", content |-> Absent]}
      [] command = "tail" -> {}]

Tag(tool, path, content, holds) ==
    [tool |-> tool, path |-> path, content |-> content, holds |-> holds, breaks |-> FALSE]
Read(p) == Tag("read_file", p, Absent, 0)
Write(p, content, holds) == Tag("write_file", p, content, holds)
Broken(p, holds) == [Write(p, "big", holds) EXCEPT !.breaks = TRUE]
Shells(command) == Tag("shell", Absent, command, 0)
Finished == Tag("done", Absent, Absent, 0)

\* A command that is not allowed, no tag for an agent without a shell; a write
\* with another tool's tags inside, and a command that never exits; work before
\* and after a done tag, which is inside of a write; a write over several lines
\* with one of its tool in it, and a path outside the working directory; a write
\* that ends with the one in it, and a search without a path
MCAnswers == {
    <<Shells("other")>>,
    <<Write("f", "new", 2), Read("f"), Read("g"), Shells("tail")>>,
    <<Tag("ls", "f", Absent, 0), Write("g", "new", 1), Finished, Read("f")>>,
    <<Broken("g", 2), Write("f", "new", 0), Read("f"), Shells("find"), Tag("grep", "f", Absent, 0),
      Write("o", "new", 0)>>,
    <<Write("f", "big", 1), Write("g", "new", 0), Shells("sort"), Tag("grep", Absent, Absent, 0)>>}
=============================================================================
