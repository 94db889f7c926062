------------------------------- MODULE Tools --------------------------------
(***************************************************************************)
(* internal/tools: what one tool call of a model may do to the working     *)
(* tree and answer. A tree is the set of the files there are; a call names *)
(* one file, or NoFile when its arguments do not parse or have no path.    *)
(***************************************************************************)
EXTENDS Integers, FiniteSets

CONSTANTS
    Files,      \* paths a model may name
    NoFile,     \* no usable path in the arguments
    Outside     \* those of Files that do not resolve to a place inside the repository

ASSUME ToolsAssumption == NoFile \notin Files /\ Outside \subseteq Files

\* "sudo" is run_command with a command that contains sudo, "patch_file" the names
\* patch_file and create_file, which are no tools but known to the tool loop; "other"
\* stands for the tools that only read (list_files, search_code, ...) and for the
\* other unknown names.
Calls == [tool : {"read_file", "write_file", "apply_patch"}, file : Files \cup {NoFile}]
            \cup [tool : {"run_command", "sudo", "patch_file", "other"}, file : {NoFile}]

\* A tool's answer: without an error or not, with some text or not, the files it
\* reports, and the tree it leaves.
Answer(ok, text, files, tree) == [ok |-> ok, text |-> text, files |-> files, tree |-> tree]

Refused(tree) == Answer(FALSE, FALSE, {}, tree)

\* resolveRepositoryPath: relative, inside the repository also behind symlinks,
\* and, unless it is to be written, there.
Resolves(f, tree, allowMissing) ==
    /\ f \in Files \ Outside
    /\ allowMissing \/ f \in tree

\* A write that fails is not reported, and may leave a new or a cut off file.
Written(f, tree) ==
    {Answer(TRUE, TRUE, {f}, tree \cup {f}), Refused(tree), Refused(tree \cup {f})}

\* readFile: the text, which may be empty, or the complaint that the range asked
\* for is not in the file.
ReadFile(f, tree) ==
    {Refused(tree)} \cup
        IF Resolves(f, tree, FALSE) THEN {Answer(TRUE, text, {}, tree) : text \in BOOLEAN}
                                    ELSE {}

WriteFile(f, tree) == IF Resolves(f, tree, TRUE) THEN Written(f, tree) ELSE {Refused(tree)}

\* ApplyPatch: the block is found, exactly or up to white space, or it is not.
ApplyPatch(f, tree) ==
    {Refused(tree)} \cup IF Resolves(f, tree, FALSE) THEN Written(f, tree) ELSE {}

\* The tools that only read. A directory may hold no file of the pattern; grep's
\* silence is an error; the map and a search of the web have a heading at least.
ListFiles(tree)     == {Refused(tree)} \cup {Answer(TRUE, text, {}, tree) : text \in BOOLEAN}
SearchCode(tree)    == {Refused(tree), Answer(TRUE, TRUE, {}, tree)}
ReadGuideline(tree) == {Refused(tree)} \cup {Answer(TRUE, text, {}, tree) : text \in BOOLEAN}
ProjectMap(tree)    == {Refused(tree), Answer(TRUE, TRUE, {}, tree)}
WebSearch(tree)     == {Refused(tree), Answer(TRUE, TRUE, {}, tree)}

\* A shell command may leave any tree, and reports no file.
RunCommand == [ok : BOOLEAN, text : BOOLEAN, files : {{}}, tree : SUBSET Files]

\* ExecuteToolContext, behind the parsing of the arguments.
ExecuteTool(call, tree) ==
    CASE call.tool = "read_file"   -> ReadFile(call.file, tree)
      [] call.tool = "write_file"  -> WriteFile(call.file, tree)
      [] call.tool = "apply_patch" -> ApplyPatch(call.file, tree)
      [] call.tool = "run_command" -> RunCommand
      [] call.tool \in {"sudo", "patch_file"} -> {Refused(tree)}
      [] OTHER -> {Refused(tree)} \cup ListFiles(tree) \cup SearchCode(tree)
                    \cup ReadGuideline(tree) \cup ProjectMap(tree) \cup WebSearch(tree)
=============================================================================
