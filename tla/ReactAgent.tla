----------------------------- MODULE ReactAgent -----------------------------
(***************************************************************************)
(* The reason-act loop of the agents (agent-sdk): an agent asks the model  *)
(* of the default provider, executes the tool tags it finds in the answer  *)
(* and tells the model what came of them, until a done tag, an error, the  *)
(* timeout or the limit on iterations.  Several agents work on the files   *)
(* of one directory, while providers are registered and removed.           *)
(*                                                                         *)
(* An answer is the sequence of its tags in the order in which they begin. *)
(* A tag may hold others in its content, whose own tools find them there;  *)
(* for its own tool its content ends at the first closing tag.             *)
(***************************************************************************)
EXTENDS Integers, Sequences, Functions

CONSTANTS
    Agents,
    Tools,          \* agent -> the names of the tools it registers
    Answers,        \* what the model may answer, a set of texts
    InputFiles,     \* agent -> the files named in its task, a sequence of paths
    Paths,
    Outside,        \* those that are not in the working directory
    OwnWrite,       \* agents with a write tool of their own
    AllowList,      \* commands that validate_shell_command lets through,
    Effects,        \* the changes to files each of them may make,
    Endless,        \* and those of them that never exit
    Contents,       \* contents of files,
    TooLarge,       \* those over max_file_size,
    Overlaid,       \* what is there once one content is written over another
    Absent, Empty,  \* no file, and a file that has been truncated
    Initial,        \* path -> what it holds at the start
    Providers,      \* names that may be registered
    MaxIterations,  \* agent -> max_iterations
    None

VARIABLES
    files,
    opened,                 \* agents whose file, open for writing, has not been removed
    providers, default,     \* ProviderRegistry: its map and its default name
    run,                    \* the engine of an agent
    ran                     \* history: what an agent has executed of each answer

ASSUME ReactAgentAssumption ==
    /\ \A a \in Agents : MaxIterations[a] \in Nat /\ InputFiles[a] \in Seq(Paths)
    /\ Initial \in [Paths -> Contents \cup {Absent}]
    /\ {Absent, Empty, None} \cap Contents = {} /\ Absent # Empty /\ None # "completed"
    /\ Overlaid \in [Contents \X Contents -> Contents]

\* A command may be any program of the list: find removes files, sort and uniq
\* write them.  A file it renames to another's name removes that first.
Change == [path : Paths, content : Contents \cup {Absent, Empty}]
ASSUME EffectsAssumption == Effects \in [AllowList -> SUBSET Change]

disk == <<files, opened>>
registry == <<providers, default>>
vars == <<disk, registry, run, ran>>

-----------------------------------------------------------------------------
(* What agents register, with its parser: the agents of the repository ... *)

Coder == {"done", "read_file", "ls", "write_file"}
Council == Coder
Reviewer == {"done", "read_file", "ls"}
SmartAgent(enable_write, enable_shell) ==
    Reviewer \cup (IF enable_write THEN {"write_file"} ELSE {})
             \cup (IF enable_shell THEN {"shell"} ELSE {})

\* ... and the presets of ToolRegistryBuilder
Minimal == {"done"}
ReadOnly == {"done", "read_file", "ls", "grep"}
FileEditor == ReadOnly \cup {"write_file"}
Full == FileEditor \cup {"shell"}

-----------------------------------------------------------------------------
(* Parsers *)

\* find_iter: from the left, and on from where the last match ends.  A tag is no
\* match when it breaks, with a line end in its content or nothing to close it;
\* then those of its tool in it may be.  The parsers of other tools know nothing of that.
Parse(tool, text) ==
    LET Matches[i \in 1..Len(text)] ==
            /\ text[i].tool = tool /\ ~text[i].breaks
            /\ \A j \in 1..(i - 1) : Matches[j] => j + text[j].holds < i
    IN  {i \in 1..Len(text) : Matches[i]}

Invocations(tools, text) == UNION {Parse(tool, text) : tool \in tools}

\* Answers are finite texts.  A tag holds those that begin before the first
\* closing tag of its tool; the content, up to there, is of one line or breaks.
ASSUME AnswersAssumption ==
    \A text \in Answers :
        /\ Len(text) \in Nat
        /\ \A i \in 1..Len(text) :
              /\ text[i].holds \in Nat
              /\ text[i].tool \in {"read_file", "write_file"} => text[i].path \in Paths
              /\ text[i].tool = "write_file" => text[i].content \in Contents

\* Variant: from the end of the text.
Last(places) == CHOOSE p \in places : \A q \in places : q <= p

\* execute_all takes the matches of all parsers in the order of their places.
First(places) == CHOOSE p \in places : \A q \in places : p <= q

-----------------------------------------------------------------------------
(* Agents *)

Engine == [pc |-> "configure", iteration |-> 0, provider |-> None, text |-> <<>>, todo |-> {},
           changes |-> {}, output |-> <<>>, context |-> <<>>, history |-> <<>>, outcome |-> None]

Init ==
    /\ files = Initial /\ opened = {}
    /\ providers \in SUBSET Providers
    /\ default \in providers \cup {None}
    /\ run = [a \in Agents |-> Engine]
    /\ ran = [a \in Agents |-> [i \in 0..MaxIterations[a] |-> <<>>]]

Set(a, engine) == run' = [run EXCEPT ![a] = engine]
Goto(a, pc) == Set(a, [run[a] EXCEPT !.pc = pc])
Ends(a, outcome) == Set(a, [Engine EXCEPT !.pc = "ended", !.outcome = outcome, !.text = run[a].text,
                                          !.iteration = run[a].iteration, !.history = run[a].history])
\* run_standard_agent: a configuration that does not parse or validate, or an
\* empty description, ends it before the loop.
Misconfigured(a) ==
    /\ run[a].pc = "configure" /\ Ends(a, "error")
    /\ UNCHANGED <<disk, registry, ran>>
Configure(a) ==
    /\ run[a].pc = "configure" /\ Goto(a, "prompt")
    /\ UNCHANGED <<disk, registry, ran>>

\* The prompt has the tools of the agent and the files of its task, each one
\* read after a look at its size; a file that cannot be read does no harm.
ValidPath(p) == p \notin Outside
TooLargeOrAbsent(p) == files[p] \in TooLarge \cup {Absent}
NextFile(a) == InputFiles[a][Len(run[a].context) + 1]
Loaded(a, content) ==
    Set(a, [run[a] EXCEPT !.pc = "prompt",
                          !.context = Append(@, [path |-> NextFile(a), line |-> content])])
CheckContext(a) ==
    /\ run[a].pc = "prompt" /\ Len(run[a].context) < Len(InputFiles[a])
    /\ IF ~ValidPath(NextFile(a)) \/ TooLargeOrAbsent(NextFile(a))
       THEN Loaded(a, None) ELSE Goto(a, "loading")
    /\ UNCHANGED <<disk, registry, ran>>
LoadContext(a) ==
    /\ run[a].pc = "loading"
    /\ \/ files[NextFile(a)] # Absent /\ Loaded(a, files[NextFile(a)])
       \/ Loaded(a, None)
    /\ UNCHANGED <<disk, registry, ran>>
BuildPrompt(a) ==
    /\ run[a].pc = "prompt" /\ Len(run[a].context) = Len(InputFiles[a])
    /\ Set(a, [run[a] EXCEPT !.pc = "loop", !.context = <<>>,
                   !.history = <<[role |-> "system", tools |-> Tools[a], results |-> run[a].context],
                                 [role |-> "user"]>>])
    /\ UNCHANGED <<disk, registry, ran>>

\* The timeout is looked at here only, and before the limit.
CheckLimits(a) ==
    /\ run[a].pc = "loop"
    /\ \/ Ends(a, "timeout")
       \/ run[a].iteration >= MaxIterations[a] /\ Ends(a, "iterations")
       \/ /\ run[a].iteration < MaxIterations[a]
          /\ Set(a, [run[a] EXCEPT !.pc = "naming", !.iteration = @ + 1])
    /\ UNCHANGED <<disk, registry, ran>>

\* default_provider reads the name, and then the map under another lock; with
\* no name it takes any provider.
DefaultName(a) ==
    /\ run[a].pc = "naming"
    /\ \/ default # None /\ Set(a, [run[a] EXCEPT !.pc = "finding", !.provider = default])
       \/ default = None /\ providers # {} /\ Goto(a, "asking")
       \/ default = None /\ providers = {} /\ Ends(a, "error")
    /\ UNCHANGED <<disk, registry, ran>>
FindProvider(a) ==
    /\ run[a].pc = "finding"
    /\ IF run[a].provider \in providers THEN Goto(a, "asking") ELSE Ends(a, "error")
    /\ UNCHANGED <<disk, registry, ran>>

Answered(a) ==
    \E text \in Answers :
        Set(a, [run[a] EXCEPT !.pc = "executing", !.text = text, !.output = <<>>,
                              !.todo = Invocations(Tools[a], text)])

\* Variant: a call that fails is made again.
AnswerRetries(a) ==
    /\ run[a].pc = "asking"
    /\ Answered(a) \/ Goto(a, "naming")
    /\ UNCHANGED <<disk, registry, ran>>

\* The model answers, or the call fails in one of its ways (InferenceChain).
Answer(a) ==
    /\ run[a].pc = "asking"
    /\ Answered(a) \/ Ends(a, "error")
    /\ UNCHANGED <<disk, registry, ran>>

-----------------------------------------------------------------------------
(* Tools *)

Current(a) == run[a].text[First(run[a].todo)]
At(a, pc, tools) == run[a].pc = pc /\ run[a].todo # {} /\ Current(a).tool \in tools

\* A tool that succeeds adds the first line of its output to the feedback; one
\* that fails ends the run, and the feedback of those before it is lost.
Succeeds(a, output) ==
    /\ Set(a, [run[a] EXCEPT !.pc = "executing", !.todo = @ \ {First(@)},
                             !.changes = {}, !.output = Append(@, [tool |-> Current(a).tool, path |-> Current(a).path,
                                                        line |-> output])])
    /\ ran' = [ran EXCEPT ![a][run[a].iteration] = Append(@, First(run[a].todo))]
Fails(a) == Ends(a, "error") /\ UNCHANGED ran

\* read_file looks at the size of the file first, and then reads it.
CheckSize(a) ==
    /\ At(a, "executing", {"read_file"})
    /\ IF ~ValidPath(Current(a).path) \/ TooLargeOrAbsent(Current(a).path)
       THEN Ends(a, "error") ELSE Goto(a, "reading")
    /\ UNCHANGED <<disk, registry, ran>>
ReadFile(a) ==
    /\ At(a, "reading", {"read_file"})
    /\ \/ files[Current(a).path] # Absent /\ Succeeds(a, files[Current(a).path])
       \/ Fails(a)
    /\ UNCHANGED <<disk, registry>>

ListDirectory(a) ==
    /\ At(a, "executing", {"ls"})
    /\ Fails(a) \/ (ValidPath(Current(a).path)
                       /\ Succeeds(a, {p \in Paths \ Outside : files[p] # Absent}))
    /\ UNCHANGED <<disk, registry>>

\* write_file truncates the file and writes it: both may fail, and others
\* read, write or remove what is there in between.  That of coder and
\* smart-agent takes a path as it is.
TakesPath(a) == a \in OwnWrite \/ ValidPath(Current(a).path)
Truncate(a) ==
    /\ At(a, "executing", {"write_file"})
    /\ \/ Ends(a, "error") /\ UNCHANGED disk
       \/ /\ TakesPath(a) /\ Goto(a, "writing")
          /\ files' = [files EXCEPT ![Current(a).path] = Empty]
          /\ opened' = opened \cup {a}
    /\ UNCHANGED <<registry, ran>>

\* What is written goes to the beginning of the file, be that one by now that
\* no path leads to.
Over(content, old) == IF old \in Contents THEN Overlaid[<<content, old>>] ELSE content
WriteFile(a) ==
    /\ At(a, "writing", {"write_file"})
    /\ \/ Fails(a) /\ UNCHANGED files
       \/ Succeeds(a, Current(a).path) /\ a \notin opened /\ UNCHANGED files
       \/ /\ Succeeds(a, Current(a).path) /\ a \in opened
          /\ files' = [files EXCEPT ![Current(a).path] = Over(Current(a).content, @)]
    /\ opened' = opened \ {a}
    /\ UNCHANGED registry

\* validate_shell_command looks at the first word and for a few characters.
ValidCommand(command) == command \in AllowList
Shell(a) ==
    /\ At(a, "executing", {"shell"})
    /\ IF ValidCommand(Current(a).content)
       THEN Set(a, [run[a] EXCEPT !.pc = "running", !.changes = Effects[Current(a).content]])
       ELSE Ends(a, "error")
    /\ UNCHANGED <<disk, registry, ran>>

\* A command makes some of its changes, each at most once, in any order and
\* beside the other agents; then it exits, with an error or without.  Nothing
\* ends one that does not, such as tail -f.
CommandChanges(a) ==
    /\ At(a, "running", {"shell"})
    /\ \E change \in run[a].changes :
          /\ Set(a, [run[a] EXCEPT !.changes = @ \ {change}])
          /\ files' = [files EXCEPT ![change.path] = change.content]
          /\ opened' = IF change.content # Absent THEN opened
                       ELSE {b \in opened : Current(b).path # change.path}
    /\ UNCHANGED <<registry, ran>>
Hangs(a) == At(a, "running", {"shell"}) /\ Current(a).content \in Endless
CommandEnds(a) ==
    /\ At(a, "running", {"shell"}) /\ ~Hangs(a)
    /\ Succeeds(a, None) \/ Fails(a)
    /\ UNCHANGED <<disk, registry>>

\* The grep of the presets searches nothing yet; its tag must name a path.
Grep(a) ==
    /\ At(a, "executing", {"grep"})
    /\ IF Current(a).path = Absent THEN Fails(a) ELSE Succeeds(a, None)
    /\ UNCHANGED <<disk, registry>>

\* A done tag ends the run: what comes after it is not executed.
Done(a) ==
    /\ At(a, "executing", {"done"})
    /\ Ends(a, "completed")
    /\ UNCHANGED <<disk, registry, ran>>

\* update_state: the answer, and either the results or a reminder
UpdateState(a) ==
    /\ run[a].pc = "executing" /\ run[a].todo = {}
    /\ LET feedback == IF run[a].output = <<>> THEN [role |-> "user"]
                       ELSE [role |-> "tool", results |-> run[a].output]
       IN  Set(a, [run[a] EXCEPT !.pc = "loop", !.provider = None,
                      !.history = @ \o <<[role |-> "assistant", text |-> run[a].text], feedback>>])
    /\ UNCHANGED <<disk, registry, ran>>

\* register, set_default and remove of the provider registry: a default may be
\* a name that is not, or no longer, in the map.
Register(p) == providers' = providers \cup {p} /\ UNCHANGED <<disk, default, run, ran>>
SetDefault(p) == default' = p /\ UNCHANGED <<disk, providers, run, ran>>
RemoveProvider(p) == providers' = providers \ {p} /\ UNCHANGED <<disk, default, run, ran>>

Step(a) == \/ Misconfigured(a) \/ Configure(a) \/ CheckContext(a) \/ LoadContext(a) \/ BuildPrompt(a)
           \/ CheckLimits(a) \/ DefaultName(a) \/ FindProvider(a) \/ Answer(a)
           \/ CheckSize(a) \/ ReadFile(a) \/ ListDirectory(a) \/ Truncate(a) \/ WriteFile(a)
           \/ Shell(a) \/ CommandChanges(a) \/ CommandEnds(a) \/ Grep(a) \/ Done(a)
           \/ UpdateState(a)

Next == \/ \E a \in Agents : Step(a)
        \/ \E p \in Providers : Register(p) \/ SetDefault(p) \/ RemoveProvider(p)

\* An agent runs on: calls of a provider return, and tools on files.
Spec == Init /\ [][Next]_vars /\ \A a \in Agents : WF_vars(Step(a))

-----------------------------------------------------------------------------
(* Properties *)

TypeOK ==
    /\ files \in [Paths -> Contents \cup {Absent, Empty}] /\ opened \subseteq Agents
    /\ providers \subseteq Providers /\ default \in Providers \cup {None}
    /\ \A a \in Agents : /\ run[a].iteration \in 0..MaxIterations[a]
                         /\ run[a].provider \in Providers \cup {None}
                         /\ run[a].outcome \in {None, "error", "timeout", "iterations", "completed"}

DoneTags(a, text) == {at \in Invocations(Tools[a], text) : text[at].tool = "done"}

\* What an agent does is what the model said, in the order of the text: all
\* the tags of an answer up to the first done tag or failure and none after,
\* those of other tools in a tag's content included; and with the next question the model
\* is told of every one of them, so that it never repeats one unawares
\* (execute_all, run, update_state).
FollowsAnswers ==
    \A a \in Agents :
        LET now == run[a].iteration
            done == Range(ran[a][now])
            found == Invocations(Tools[a], run[a].text)
        IN  /\ \A i \in 1..now : \A k \in 1..Len(ran[a][i]) - 1 : ran[a][i][k] < ran[a][i][k + 1]
            /\ \A at \in done : \A q \in found : q < at => q \in done
            /\ DoneTags(a, run[a].text) \cap done = {}
            /\ run[a].outcome = "completed" =>
                  \E at \in DoneTags(a, run[a].text) : done = {q \in found : q < at}
            /\ \A i \in 1..now : 2 * i + 2 <= Len(run[a].history) =>
                  LET text == run[a].history[2 * i + 1].text
                      feedback == run[a].history[2 * i + 2]
                  IN  /\ Range(ran[a][i]) = Invocations(Tools[a], text) /\ DoneTags(a, text) = {}
                      /\ IF feedback.role = "user" THEN Invocations(Tools[a], text) = {}
                         ELSE [k \in DOMAIN feedback.results |-> feedback.results[k].tool] =
                                [k \in DOMAIN ran[a][i] |-> text[ran[a][i][k]].tool]

\* A file is as it was, or as a write tag left it that some agent executes,
\* over what another write or a command had put there meanwhile, or empty from
\* a write on its way or one that failed, or as an allowed command left it in
\* such a tag; and the model is never shown anything else of it, in its prompt
\* or in the result of a read (WriteFileTool, ShellTool, ReadFileTool,
\* build_file_context).
Tags == UNION {UNION {{text[at] : at \in Invocations(Tools[a], text)} : text \in Answers} : a \in Agents}
Written(p) == {tag.content : tag \in {t \in Tags : t.tool = "write_file" /\ t.path = p}}
Allowed == UNION {Effects[tag.content] : tag \in {t \in Tags : t.tool = "shell" /\ ValidCommand(t.content)}}
Held(p) == {Initial[p], Empty} \cup {Over(content, old) : content \in Written(p), old \in Contents \cup {Empty}}
    \cup {change.content : change \in {c \in Allowed : c.path = p}}
ShownOf(p, results) == {r.line : r \in {q \in results : q.path = p}} \ {None}
WrittenByTags ==
    \A p \in Paths :
        /\ files[p] \in Held(p)
        /\ \A a \in Agents :
              /\ ShownOf(p, Range(run[a].context)) \subseteq Held(p) \ {Absent}
              /\ ShownOf(p, {r \in Range(run[a].output) : r.tool = "read_file"})
                    \subseteq Held(p) \ {Absent}

AgentsFollow == TypeOK /\ FollowsAnswers /\ WrittenByTags

\* Every run comes to an end, whatever the model answers and however often,
\* but for one that waits for a command that never exits (run: max_iterations,
\* ShellTool: output).
RunsEnd == \A a \in Agents : (run[a].pc # "ended") ~> (run[a].pc = "ended" \/ Hangs(a))
=============================================================================
