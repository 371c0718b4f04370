----------------------------- MODULE Toolchain ------------------------------
(***************************************************************************)
(* The three programs as a user meets them: sd runs dragon-lexer and       *)
(* dragon-parser on each of its files through the shell, reads the .ast    *)
(* files they left, writes the C file and calls gcc.  The programs share   *)
(* nothing but files, which stay from one build to the next, and tell each *)
(* other no more than an exit status.                                      *)
(*                                                                         *)
(* Sources change between builds only.  Any program may be killed at any   *)
(* time, as users do with a parser that does not end.  What a file holds   *)
(* is what it was made from, and how much of it is there: "whole", "cut"   *)
(* (well formed, but the end is missing) or "torn" (its beginning).        *)
(*                                                                         *)
(* Every file that is written can be opened and has room: no program looks *)
(* at the results of fprintf, fwrite and fclose, so that on a full disk    *)
(* the end of the .tokens, the .ast or the C file is not there and the     *)
(* exit status says nothing of it.                                         *)
(***************************************************************************)
EXTENDS Naturals, Sequences, Functions

CONSTANTS
  File,         \* source files, with the extension .dg
  Text,         \* what a source file may hold
  Parses,       \* texts that dragon-parser accepts
  WellTyped,    \* those that typecheck_ast accepts
  WithMain,     \* those with a subroutine main
  StdIn,        \* the text on the standard input
  None,         \* no such file, or no value yet
  Prelude,      \* a C file with nothing but the includes of C
  MaxFiles,     \* bound: files of a build
  MaxBuilds,    \* bound: builds and tests
  MaxKills      \* bound: programs that are killed

ASSUME TextAssumption ==
  /\ (Parses \cup WellTyped \cup WithMain) \subseteq Text
  /\ StdIn \in Text

ASSUME MaxFilesAssumption == MaxFiles \in Nat

Killed == 130         \* what the shell makes of a signal

(* The lists of files sd is called with.                                   *)
FileList == {s \in UNION {[1..c -> File] : c \in 1..MaxFiles} : IsInjective(s)}

VARIABLES
  source,       \* file |-> its text
  readable,     \* files that may be opened, not only looked up
  tokens, ast,  \* file |-> .file.dg.tokens, .file.dg.ast
  c_file,       \* file |-> its C file
  a_out,        \* the executable
  args,         \* Flags.filenames
  mode,         \* "sd", or "test" inside of sourceToStatus
  pc, n,        \* where transpileAndCompile is, and at which of its files
  namespaces,   \* AST.namespaces
  has_main_fn,  \* Flags.has_main_fn
  exit_code,    \* of sd
  builds, kills,
  unseen,       \* a tool was killed in this build, and the shell said 0
  before        \* the C file and the executable when the build began

disk == <<source, readable, tokens, ast, c_file, a_out>>
call == <<args, mode, before, builds>>
vars == <<disk, call, pc, n, namespaces, has_main_fn, exit_code, kills, unseen>>

Init ==
  /\ source \in [File -> Text] /\ \E f \in File : readable \in {File, File \ {f}}
  /\ tokens = [f \in File |-> None] /\ ast = tokens /\ c_file = tokens
  /\ a_out = None /\ before = [c |-> None, a_out |-> None]
  /\ args = <<>> /\ mode = "sd" /\ pc = "rest" /\ n = 1
  /\ namespaces = <<>> /\ has_main_fn = None /\ exit_code = 0
  /\ builds = 0 /\ kills = 0 /\ unseen = FALSE

-----------------------------------------------------------------------------

(* transpileAndCompile is called; makeFlags2 does not assign has_main_fn.  *)
Begin(files, m) ==
  /\ builds < MaxBuilds /\ builds' = builds + 1
  /\ args' = files /\ mode' = m /\ n' = 1 /\ pc' = "lex"
  /\ namespaces' = <<>> /\ has_main_fn' = None /\ unseen' = FALSE
  /\ before' = [c |-> c_file'[files[1]], a_out |-> a_out']
  /\ UNCHANGED <<exit_code, kills>>

(* The user may change a source and calls sd; validate_flags finds that    *)
(* the files exist.                                                        *)
Call(files) ==
  /\ pc = "rest"
  /\ \E f \in File, text \in Text : source' = [source EXCEPT ![f] = text]
  /\ UNCHANGED <<readable, tokens, ast, c_file, a_out>>
  /\ Begin(files, "sd")

(* mutant: the executable of the last test is left.                        *)
BugTest(f, text) ==
  /\ pc = "rest"
  /\ source' = [source EXCEPT ![f] = text] /\ readable' = readable \cup {f}
  /\ tokens' = [tokens EXCEPT ![f] = None] /\ ast' = [ast EXCEPT ![f] = None]
  /\ c_file' = [c_file EXCEPT ![f] = None] /\ UNCHANGED a_out
  /\ Begin(<<f>>, "test")

(* sourceToStatus: clean, and write the source of the test.                *)
Test(f, text) ==
  /\ pc = "rest"
  /\ source' = [source EXCEPT ![f] = text] /\ readable' = readable \cup {f}
  /\ tokens' = [tokens EXCEPT ![f] = None] /\ ast' = [ast EXCEPT ![f] = None]
  /\ c_file' = [c_file EXCEPT ![f] = None] /\ a_out' = None
  /\ Begin(<<f>>, "test")

At(stage) == pc = stage /\ n <= Len(args)

file == args[n]

Exit(code) == pc' = "rest" /\ exit_code' = code

Content(text, part) == [of |-> text, part |-> part]

(* fopen is not checked; without a file the scanner takes standard input.  *)
Scanned == IF file \in readable THEN source[file] ELSE StdIn

Lex ==
  /\ At("lex")
  /\ tokens' = [tokens EXCEPT ![file] = Content(Scanned, "whole")]
  /\ pc' = "parse"
  /\ UNCHANGED <<source, readable, ast, c_file, a_out, call, n, namespaces, has_main_fn,
                 exit_code, kills, unseen>>

(* The verdicts that a phase may come to.                                  *)
Verdict(content, Good) ==
  IF content.part = "whole" THEN {content.of \in Good} ELSE BOOLEAN

(* build_ast_file writes the .ast file after it has seen all tokens.       *)
Parse ==
  /\ At("parse") /\ tokens[file] # None /\ TRUE \in Verdict(tokens[file], Parses)
  /\ ast' = [ast EXCEPT ![file] = tokens[file]]
  /\ pc' = "lex" /\ n' = n + 1
  /\ UNCHANGED <<source, readable, tokens, c_file, a_out, call, namespaces, has_main_fn,
                 exit_code, kills, unseen>>

(* mutant: the status of the parser is not looked at.                      *)
BugRefuse ==
  /\ At("parse") /\ (IF tokens[file] = None THEN TRUE ELSE FALSE \in Verdict(tokens[file], Parses))
  /\ pc' = "lex" /\ n' = n + 1
  /\ UNCHANGED <<disk, call, namespaces, has_main_fn, exit_code, kills, unseen>>

(* There is no .tokens file, or exit_incomplete_parse: sd exits, too.      *)
Refuse ==
  /\ At("parse") /\ (IF tokens[file] = None THEN TRUE ELSE FALSE \in Verdict(tokens[file], Parses))
  /\ Exit(1)
  /\ UNCHANGED <<disk, call, n, namespaces, has_main_fn, kills, unseen>>

(* A tool is killed, before it opened its output or later; WEXITSTATUS is  *)
(* 0 when the shell has become the tool, and more when it waited for it.   *)
KillTool ==
  /\ At("lex") \/ At("parse")
  /\ kills < MaxKills /\ kills' = kills + 1
  /\ \/ UNCHANGED <<tokens, ast>>
     \/ /\ pc = "lex"
        /\ tokens' = [tokens EXCEPT ![file] = Content(Scanned, "cut")] /\ UNCHANGED ast
     \/ /\ pc = "parse" /\ tokens[file] # None /\ TRUE \in Verdict(tokens[file], Parses)
        /\ ast' = [ast EXCEPT ![file] = Content(tokens[file].of, "torn")] /\ UNCHANGED tokens
  /\ \/ Exit(1) /\ UNCHANGED <<n, unseen>>
     \/ /\ IF pc = "lex" THEN pc' = "parse" /\ UNCHANGED n ELSE pc' = "lex" /\ n' = n + 1
        /\ unseen' = TRUE /\ UNCHANGED exit_code
  /\ UNCHANGED <<source, readable, c_file, a_out, call, namespaces, has_main_fn>>

(* What read_namespace makes of a file, if it does not exit.               *)
Loaded(content) == IF content.part = "torn" THEN Content(content.of, "cut") ELSE content

ReadAst ==
  /\ pc = "lex" /\ n > Len(args)
  /\ \A f \in Range(args) : ast[f] # None
  /\ namespaces' = [j \in DOMAIN args |-> Loaded(ast[args[j]])]
  /\ pc' = "transpile"
  /\ UNCHANGED <<disk, call, n, has_main_fn, exit_code, kills, unseen>>

(* error, in ast_reader.c.                                                 *)
CannotRead ==
  /\ pc = "lex" /\ n > Len(args)
  /\ \E f \in Range(args) : IF ast[f] = None THEN TRUE ELSE ast[f].part = "torn"
  /\ Exit(1)
  /\ UNCHANGED <<disk, call, n, namespaces, has_main_fn, kills, unseen>>

(* The verdicts on a program of several namespaces: all have to be good,   *)
(* or one has to be.                                                       *)
AllOf(Good) == {\A j \in DOMAIN namespaces : b[j] :
                  b \in {c \in [DOMAIN namespaces -> BOOLEAN] :
                           \A j \in DOMAIN namespaces : c[j] \in Verdict(namespaces[j], Good)}}

OneOf(Good) == {~b : b \in AllOf(Text \ Good)}

(* transpileAndWrite of a program that is accepted: the C file of the      *)
(* first name takes all namespaces.                                        *)
Translate ==
  /\ pc = "transpile" /\ TRUE \in AllOf(WellTyped)
  /\ has_main_fn' \in OneOf(WithMain)
  /\ c_file' = [c_file EXCEPT ![args[1]] = namespaces]
  /\ pc' = "compile"
  /\ UNCHANGED <<source, readable, tokens, ast, a_out, call, n, namespaces, exit_code, kills,
                 unseen>>

(* sourceToStatus goes on whatever transpileAndCompile returns.            *)
Return(code) ==
  /\ pc' = IF mode = "test" THEN "run" ELSE "rest"
  /\ exit_code' = code

(* mutant: the C file is written before the program is checked.            *)
BugLateCheck ==
  /\ pc = "transpile" /\ FALSE \in AllOf(WellTyped)
  /\ c_file' = [c_file EXCEPT ![args[1]] = namespaces]
  /\ Return(1)
  /\ UNCHANGED <<source, readable, tokens, ast, a_out, call, n, namespaces, has_main_fn, kills,
                 unseen>>

(* One that is not: the C file was opened and begun, then ctx->error is    *)
(* set, or a routine of the type checker exits itself.                     *)
Reject ==
  /\ pc = "transpile" /\ FALSE \in AllOf(WellTyped)
  /\ c_file' = [c_file EXCEPT ![args[1]] = Prelude]
  /\ Return(1) \/ Exit(1)
  /\ UNCHANGED <<source, readable, tokens, ast, a_out, call, n, namespaces, has_main_fn, kills,
                 unseen>>

Beginning == [j \in DOMAIN namespaces |-> Content(namespaces[j].of, "torn")]

(* The code generator exits, on a member without a size or on a term that  *)
(* it does not know.                                                       *)
GiveUp ==
  /\ pc = "transpile" /\ TRUE \in AllOf(WellTyped)
  /\ c_file' = [c_file EXCEPT ![args[1]] = Beginning]
  /\ Exit(1)
  /\ UNCHANGED <<source, readable, tokens, ast, a_out, call, n, namespaces, has_main_fn, kills,
                 unseen>>

(* What gcc returns is not looked at; it may leave an old executable.      *)
Compile ==
  /\ pc = "compile"
  /\ IF has_main_fn = TRUE THEN a_out' \in {c_file[args[1]], a_out, None} ELSE UNCHANGED a_out
  /\ Return(0)
  /\ UNCHANGED <<source, readable, tokens, ast, c_file, call, n, namespaces, has_main_fn, kills,
                 unseen>>

(* The test runs what there is, and cleans up unless it is debugged.       *)
RunProgram ==
  /\ pc = "run" /\ pc' = "rest"
  /\ \/ UNCHANGED disk
     \/ /\ tokens' = [tokens EXCEPT ![args[1]] = None]
        /\ ast' = [ast EXCEPT ![args[1]] = None]
        /\ c_file' = [c_file EXCEPT ![args[1]] = None] /\ a_out' = None
        /\ UNCHANGED <<source, readable>>
  /\ UNCHANGED <<call, n, namespaces, has_main_fn, exit_code, kills, unseen>>

(* sd itself is killed, with its C file open or not.                       *)
KillSd ==
  /\ pc # "rest" /\ kills < MaxKills /\ kills' = kills + 1
  /\ \/ UNCHANGED c_file
     \/ /\ pc = "transpile"
        /\ \E written \in {Prelude, Beginning} : c_file' = [c_file EXCEPT ![args[1]] = written]
  /\ Exit(Killed)
  /\ UNCHANGED <<source, readable, tokens, ast, a_out, call, n, namespaces, has_main_fn, unseen>>

Next ==
  \/ \E files \in FileList : Call(files)
  \/ \E f \in File, text \in Text : Test(f, text)
  \/ Lex \/ Parse \/ Refuse \/ ReadAst \/ CannotRead \/ Translate \/ Reject \/ GiveUp
  \/ Compile \/ RunProgram \/ KillTool \/ KillSd

Spec == Init /\ [][Next]_vars

-----------------------------------------------------------------------------
(* Properties.                                                             *)

(* When sd says that it succeeded, the C file is the translation of the    *)
(* sources as they are, each of them and all of each, and not of what an   *)
(* earlier build left, whatever failed in the builds before -- unless a    *)
(* tool was killed and the shell did not say so, or the lexer could not    *)
(* open a source.  Of a file that was cut off for lack of room, or could   *)
(* not be opened for writing (cg.c:76), it does not speak.                 *)
BuiltFromSources ==
  (/\ pc = "rest" /\ mode = "sd" /\ builds > 0 /\ exit_code = 0
   /\ ~unseen /\ Range(args) \subseteq readable)
  => c_file[args[1]] = [j \in DOMAIN args |-> Content(source[args[j]], "whole")]

(* A build that fails leaves the executable alone, and of its C file what  *)
(* was there or something too short to compile: never the translation of a *)
(* program that was not accepted.                                          *)
FailureKeepsOld ==
  pc = "rest" /\ mode = "sd" /\ exit_code = 1 =>
    /\ a_out = before.a_out
    /\ \/ c_file[args[1]] \in {before.c, Prelude}
       \/ \A j \in DOMAIN c_file[args[1]] : c_file[args[1]][j].part = "torn"

(* The status a test gets is that of a program made from its own source,   *)
(* whatever the tests before it left behind and whoever was killed.        *)
TestRunsItsSource ==
  pc = "run" /\ a_out # None => \A j \in DOMAIN a_out : a_out[j].of = source[args[1]]

=============================================================================
