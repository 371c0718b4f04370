-------------------------- MODULE Toolchain_proofs --------------------------
(***************************************************************************)
(* What Toolchain.tla promises, for any files, texts and bounds.  Each of  *)
(* the three properties has an invariant of its own that follows the build *)
(* from one program to the next; the types of the variables are shared.    *)
(***************************************************************************)
EXTENDS Toolchain, TLAPS

(* The types as far as they matter: every file has its entry in each map   *)
(* of files, and a build has at least one file and none twice.             *)
TypeOK ==
  /\ DOMAIN source = File /\ DOMAIN tokens = File
  /\ DOMAIN ast = File /\ DOMAIN c_file = File
  /\ args \in Seq(File)
  /\ n \in Nat \ {0}
  /\ builds \in Nat
  /\ mode \in {"sd", "test"}
  /\ pc \in {"rest", "lex", "parse", "transpile", "compile", "run"}
  /\ builds > 0 \/ pc # "rest" => Len(args) > 0 /\ IsInjective(args)
  /\ pc = "parse" => n <= Len(args)
  /\ pc = "run" => mode = "test"

LEMMA ListsOfFiles ==
  ASSUME NEW s \in FileList
  PROVE  s \in Seq(File) /\ Len(s) > 0 /\ IsInjective(s)
<1>1. PICK c \in 1..MaxFiles : s \in [1..c -> File]
  BY DEF FileList
<1>2. c \in Nat /\ c > 0
  BY <1>1, MaxFilesAssumption
<1>3. s \in Seq(File) /\ Len(s) = c
  BY <1>1, <1>2
<1> QED BY <1>2, <1>3 DEF FileList

LEMMA OneFile ==
  ASSUME NEW f \in File
  PROVE  <<f>> \in Seq(File) /\ Len(<<f>>) > 0 /\ IsInjective(<<f>>)
BY DEF IsInjective

(* The types are kept by every step.                                       *)
THEOREM TypeCorrect == Spec => []TypeOK
<1>1. Init => TypeOK
  BY DEF Init, TypeOK
<1>2. TypeOK /\ [Next]_vars => TypeOK'
  <2> SUFFICES ASSUME TypeOK, [Next]_vars PROVE TypeOK'
    OBVIOUS
  <2>1. ASSUME NEW files \in FileList, Call(files) PROVE TypeOK'
    BY <2>1, ListsOfFiles DEF TypeOK, Call, Begin
  <2>2. ASSUME NEW f \in File, NEW text \in Text, Test(f, text) PROVE TypeOK'
    BY <2>2, OneFile DEF TypeOK, Test, Begin
  <2>3. CASE Lex
    BY <2>3 DEF TypeOK, Lex, At, file, call
  <2>4. CASE Parse
    BY <2>4 DEF TypeOK, Parse, At, file, call
  <2>5. CASE Refuse
    BY <2>5 DEF TypeOK, Refuse, At, Exit, call, disk
  <2>6. CASE ReadAst
    BY <2>6 DEF TypeOK, ReadAst, call, disk
  <2>7. CASE CannotRead
    BY <2>7 DEF TypeOK, CannotRead, Exit, call, disk
  <2>8. CASE Translate
    BY <2>8 DEF TypeOK, Translate, call
  <2>9. CASE Reject
    BY <2>9 DEF TypeOK, Reject, Return, Exit, call
  <2>10. CASE GiveUp
    BY <2>10 DEF TypeOK, GiveUp, Exit, call
  <2>11. CASE Compile
    BY <2>11 DEF TypeOK, Compile, Return, call
  <2>12. CASE RunProgram
    BY <2>12 DEF TypeOK, RunProgram, call, disk
  <2>13. CASE KillTool
    <3>1. DOMAIN tokens' = File /\ DOMAIN ast' = File
      BY <2>13 DEF TypeOK, KillTool
    <3>2. /\ n' \in Nat \ {0} /\ pc' \in {"rest", "lex", "parse"}
          /\ pc' = "parse" => n' <= Len(args)
          /\ pc # "rest"
      BY <2>13 DEF TypeOK, KillTool, At, Exit
    <3>3. UNCHANGED <<source, c_file, args, mode, builds>>
      BY <2>13 DEF KillTool, call
    <3> QED BY <3>1, <3>2, <3>3 DEF TypeOK
  <2>14. CASE KillSd
    BY <2>14 DEF TypeOK, KillSd, Exit, call
  <2>15. CASE UNCHANGED vars
    BY <2>15 DEF TypeOK, vars, call, disk
  <2> QED
    BY <2>1, <2>2, <2>3, <2>4, <2>5, <2>6, <2>7, <2>8, <2>9, <2>10, <2>11, <2>12, <2>13, <2>14,
       <2>15 DEF Next
<1> QED BY <1>1, <1>2, PTL DEF Spec

-----------------------------------------------------------------------------
(* A test.                                                                 *)

Own(content) == content.of = source[args[1]]

(* Through a test every file that is there holds the source of the test:   *)
(* they were all removed when it began, and a test has one file, which it  *)
(* has written itself.                                                     *)
TestInv ==
  mode = "test" /\ pc # "rest" =>
    /\ Len(args) = 1 /\ args[1] \in readable
    /\ tokens[args[1]] # None => Own(tokens[args[1]])
    /\ ast[args[1]] # None => Own(ast[args[1]])
    /\ pc = "transpile" => \A j \in DOMAIN namespaces : Own(namespaces[j])
    /\ pc = "compile" => \A j \in DOMAIN c_file[args[1]] : Own(c_file[args[1]][j])
    /\ a_out # None => \A j \in DOMAIN a_out : Own(a_out[j])

LEMMA TestInvStep ==
  TypeOK /\ TypeOK' /\ TestInv /\ [Next]_vars => TestInv'
<1> SUFFICES ASSUME TypeOK, TypeOK', TestInv, [Next]_vars,
                    mode' = "test", pc' # "rest"
             PROVE  TestInv'
  BY DEF TestInv
<1>0. pc # "rest" => args[1] \in File
  BY DEF TypeOK
<1>1. ASSUME NEW files \in FileList, Call(files) PROVE TestInv'
  BY <1>1 DEF Call, Begin
<1>2. ASSUME NEW f \in File, NEW text \in Text, Test(f, text) PROVE TestInv'
  <2>1. args' = <<f>> /\ pc' = "lex"
    BY <1>2 DEF Test, Begin
  <2>2. tokens'[f] = None /\ ast'[f] = None /\ a_out' = None /\ f \in readable'
    BY <1>2 DEF Test, TypeOK
  <2> QED BY <2>1, <2>2 DEF TestInv
<1>3. CASE Lex
  <2>0. mode = "test" /\ pc = "lex" /\ n <= Len(args)
    BY <1>3 DEF Lex, At, call
  <2>1. n = 1 /\ args[n] \in File /\ Len(args) = 1 /\ args[1] \in readable
    <3>1. Len(args) = 1 /\ args[1] \in readable
      BY <2>0 DEF TestInv
    <3>2. n = 1
      BY <2>0, <3>1 DEF TypeOK
    <3> QED BY <1>0, <2>0, <3>1, <3>2
  <2>2. Scanned = source[args[1]] /\ file = args[1]
    BY <2>1 DEF Scanned, file
  <2>3. Own(Content(Scanned, "whole"))
    BY <2>2 DEF Own, Content
  <2>4. Own(tokens'[args[1]])
    BY <1>3, <2>1, <2>2, <2>3 DEF Lex, TypeOK
  <2>5. UNCHANGED <<source, readable, ast, a_out, args>> /\ pc' = "parse"
    BY <1>3 DEF Lex, call
  <2> QED BY <2>0, <2>1, <2>4, <2>5 DEF TestInv, Own
<1>4. CASE Parse
  BY <1>4 DEF Parse, At, TypeOK, TestInv, Own, file, call
<1>5. CASE Refuse
  BY <1>5 DEF Refuse, Exit
<1>6. CASE ReadAst
  <2>1. Len(args) = 1 /\ DOMAIN args = 1..1 /\ Own(ast[args[1]])
    BY <1>6 DEF ReadAst, TypeOK, TestInv, call, Range
  <2>2. \A content : Own(content) => Own(Loaded(content))
    BY DEF Own, Loaded, Content
  <2>3. \A j \in DOMAIN namespaces' : Own(namespaces'[j])
    BY <1>6, <2>1, <2>2 DEF ReadAst
  <2> QED BY <1>6, <2>3 DEF ReadAst, TestInv, Own, call, disk
<1>7. CASE CannotRead
  BY <1>7 DEF CannotRead, Exit
<1>8. CASE Translate
  BY <1>8 DEF Translate, TypeOK, TestInv, Own, call
<1>9. CASE Reject
  BY <1>9 DEF Reject, Return, Exit, TypeOK, TestInv, Own, call
<1>10. CASE GiveUp
  BY <1>10 DEF GiveUp, Exit
<1>11. CASE Compile
  BY <1>11 DEF Compile, Return, TypeOK, TestInv, Own, call
<1>12. CASE RunProgram
  BY <1>12 DEF RunProgram
<1>13. CASE KillTool
  <2>1. mode = "test" /\ Len(args) = 1 /\ args[1] \in File /\ args[1] \in readable
    BY <1>13 DEF KillTool, At, TestInv, TypeOK, call
  <2>2. n = 1 /\ pc \in {"lex", "parse"} /\ file = args[1]
    BY <1>13, <2>1 DEF KillTool, At, TypeOK, file
  <2>3. Own(Content(Scanned, "cut"))
    BY <2>1, <2>2 DEF Own, Content, Scanned
  <2>4. tokens[file] # None => Own(Content(tokens[file].of, "torn"))
    BY <2>1, <2>2 DEF Own, Content, TestInv
  <2>5. tokens'[args[1]] # None => Own(tokens'[args[1]])
    BY <1>13, <2>1, <2>2, <2>3 DEF KillTool, TypeOK, TestInv
  <2>6. ast'[args[1]] # None => Own(ast'[args[1]])
    BY <1>13, <2>1, <2>2, <2>4 DEF KillTool, TypeOK, TestInv
  <2>7. pc' \in {"lex", "parse"}
    BY <1>13, <2>2 DEF KillTool, Exit
  <2> QED BY <1>13, <2>1, <2>2, <2>5, <2>6, <2>7 DEF KillTool, TestInv, Own, call
<1>14. CASE KillSd
  BY <1>14 DEF KillSd, Exit
<1>15. CASE UNCHANGED vars
  BY <1>15 DEF vars, call, disk, TestInv, Own
<1> QED
  BY <1>1, <1>2, <1>3, <1>4, <1>5, <1>6, <1>7, <1>8, <1>9, <1>10, <1>11, <1>12, <1>13, <1>14,
     <1>15 DEF Next

(* The status a test gets is that of a program made from its own source:   *)
(* the files a test may find are all its own, even when it was killed.     *)
THEOREM TestsRunTheirSource == Spec => []TestRunsItsSource
<1>1. Init => TestInv
  BY DEF Init, TestInv
<1>2. TypeOK /\ TestInv => TestRunsItsSource
  BY DEF TypeOK, TestInv, TestRunsItsSource, Own
<1> QED BY <1>1, <1>2, TestInvStep, TypeCorrect, PTL DEF Spec

-----------------------------------------------------------------------------
(* A build that fails.                                                     *)

(* Until gcc is called a build has changed nothing but hidden files, and   *)
(* gcc is called in a build that succeeds.                                 *)
FailInv ==
  mode = "sd" =>
    /\ pc \in {"lex", "parse", "transpile"} =>
         a_out = before.a_out /\ c_file[args[1]] = before.c
    /\ FailureKeepsOld

LEMMA FailInvStep ==
  TypeOK /\ TypeOK' /\ FailInv /\ [Next]_vars => FailInv'
<1> SUFFICES ASSUME TypeOK, TypeOK', FailInv, [Next]_vars, mode' = "sd"
             PROVE  FailInv'
  BY DEF FailInv
<1>0. pc # "rest" => args[1] \in File
  BY DEF TypeOK
<1>1. ASSUME NEW files \in FileList, Call(files) PROVE FailInv'
  BY <1>1 DEF Call, Begin, FailInv, FailureKeepsOld
<1>2. ASSUME NEW f \in File, NEW text \in Text, Test(f, text) PROVE FailInv'
  BY <1>2 DEF Test, Begin
<1>3. CASE Lex
  BY <1>3 DEF Lex, At, FailInv, FailureKeepsOld, call
<1>4. CASE Parse
  BY <1>4 DEF Parse, At, FailInv, FailureKeepsOld, call
<1>5. CASE Refuse
  BY <1>5 DEF Refuse, At, Exit, FailInv, FailureKeepsOld, call, disk
<1>6. CASE ReadAst
  BY <1>6 DEF ReadAst, FailInv, FailureKeepsOld, call, disk
<1>7. CASE CannotRead
  BY <1>7 DEF CannotRead, Exit, FailInv, FailureKeepsOld, call, disk
<1>8. CASE Translate
  BY <1>8 DEF Translate, FailInv, FailureKeepsOld, call
<1>9. CASE Reject
  BY <1>0, <1>9 DEF Reject, Return, Exit, FailInv, FailureKeepsOld, call, TypeOK
<1>10. CASE GiveUp
  <2>1. c_file'[args[1]] = Beginning /\ a_out' = before'.a_out /\ pc' = "rest" /\ args' = args
    BY <1>0, <1>10 DEF GiveUp, Exit, FailInv, call, TypeOK
  <2>2. \A k \in DOMAIN Beginning : Beginning[k].part = "torn"
    BY DEF Beginning, Content
  <2> QED BY <2>1, <2>2 DEF FailInv, FailureKeepsOld
<1>11. CASE Compile
  BY <1>11 DEF Compile, Return, FailInv, FailureKeepsOld, call
<1>12. CASE RunProgram
  BY <1>12 DEF RunProgram, TypeOK, call
<1>13. CASE KillTool
  BY <1>13 DEF KillTool, At, Exit, FailInv, FailureKeepsOld, call
<1>14. CASE KillSd
  BY <1>14 DEF KillSd, Exit, Killed, FailInv, FailureKeepsOld
<1>15. CASE UNCHANGED vars
  BY <1>15 DEF vars, call, disk, FailInv, FailureKeepsOld
<1> QED
  BY <1>1, <1>2, <1>3, <1>4, <1>5, <1>6, <1>7, <1>8, <1>9, <1>10, <1>11, <1>12, <1>13, <1>14,
     <1>15 DEF Next

(* A build that fails leaves the executable alone, and never the           *)
(* translation of a program that was not accepted.                         *)
THEOREM FailuresKeepOld == Spec => []FailureKeepsOld
<1>1. Init => FailInv
  BY DEF Init, FailInv, FailureKeepsOld
<1>2. FailInv => FailureKeepsOld
  BY DEF FailInv, FailureKeepsOld
<1> QED BY <1>1, <1>2, FailInvStep, TypeCorrect, PTL DEF Spec

-----------------------------------------------------------------------------
(* A build that succeeds.                                                  *)

Seen == ~unseen /\ Range(args) \subseteq readable

Translation == [j \in DOMAIN args |-> Content(source[args[j]], "whole")]

(* While no kill went unseen, the hidden files of the names that the loop  *)
(* has passed are those of the sources, and what is read of them later is  *)
(* the same.                                                               *)
BuildInv ==
  mode = "sd" /\ Seen =>
    /\ pc \in {"lex", "parse"} =>
         \A k \in DOMAIN args : k < n => ast[args[k]] = Translation[k]
    /\ pc = "parse" => tokens[args[n]] = Translation[n]
    /\ pc = "transpile" => namespaces = Translation
    /\ pc = "compile" => c_file[args[1]] = Translation
    /\ pc = "rest" /\ builds > 0 /\ exit_code = 0 => c_file[args[1]] = Translation

LEMMA BuildInvStep ==
  TypeOK /\ TypeOK' /\ BuildInv /\ [Next]_vars => BuildInv'
<1> SUFFICES ASSUME TypeOK, TypeOK', BuildInv, [Next]_vars, mode' = "sd", Seen'
             PROVE  BuildInv'
  BY DEF BuildInv
<1>0. /\ pc # "rest" => args[1] \in File
      /\ \A k \in DOMAIN args : args[k] \in File
      /\ DOMAIN args = 1..Len(args)
  BY DEF TypeOK
<1>1. ASSUME NEW files \in FileList, Call(files) PROVE BuildInv'
  BY <1>1, ListsOfFiles DEF Call, Begin, BuildInv
<1>2. ASSUME NEW f \in File, NEW text \in Text, Test(f, text) PROVE BuildInv'
  BY <1>2 DEF Test, Begin
<1>3. CASE Lex
  <2>1. /\ pc = "lex" /\ n \in DOMAIN args /\ pc' = "parse"
        /\ UNCHANGED <<source, readable, ast, args, mode, n, unseen>>
    BY <1>0, <1>3 DEF Lex, At, TypeOK, call
  <2>2. Seen /\ mode = "sd" /\ args[n] \in readable
    BY <2>1 DEF Seen, Range
  <2>3. tokens'[args[n]] = Content(source[args[n]], "whole")
    BY <1>0, <1>3, <2>1, <2>2 DEF Lex, TypeOK, Scanned, file
  <2> QED BY <2>1, <2>2, <2>3 DEF BuildInv, Translation
<1>4. CASE Parse
  <2>1. /\ pc = "parse" /\ n \in DOMAIN args /\ pc' = "lex" /\ n' = n + 1
        /\ UNCHANGED <<source, readable, args, mode, unseen>>
    BY <1>0, <1>4 DEF Parse, At, TypeOK, call
  <2>2. Seen /\ mode = "sd"
    BY <2>1 DEF Seen
  <2>3. ast'[args[n]] = Translation[n]
    BY <1>0, <1>4, <2>1, <2>2 DEF Parse, TypeOK, file, BuildInv
  <2>4. ASSUME NEW k \in DOMAIN args, k < n PROVE ast'[args[k]] = Translation[k]
    <3>1. args[k] # args[n] /\ args[k] \in File
      BY <1>0, <2>1, <2>4 DEF TypeOK, IsInjective
    <3> QED BY <1>4, <2>1, <2>2, <2>4, <3>1 DEF Parse, TypeOK, file, BuildInv
  <2>5. ASSUME NEW k \in DOMAIN args', k < n' PROVE ast'[args'[k]] = Translation'[k]
    <3>1. k = n \/ k < n
      BY <1>0, <2>1, <2>5 DEF TypeOK
    <3> QED BY <2>1, <2>3, <2>4, <3>1 DEF Translation
  <2> QED BY <2>1, <2>5 DEF BuildInv
<1>5. CASE Refuse
  BY <1>5 DEF Refuse, Exit, BuildInv
<1>6. CASE ReadAst
  <2>1. /\ pc = "lex" /\ n > Len(args) /\ pc' = "transpile"
        /\ UNCHANGED <<source, readable, args, mode, unseen>>
    BY <1>6 DEF ReadAst, call, disk
  <2>2. Seen /\ mode = "sd"
    BY <2>1 DEF Seen
  <2>3. ASSUME NEW k \in DOMAIN args PROVE Loaded(ast[args[k]]) = Translation[k]
    <3>1. ast[args[k]] = Translation[k]
      BY <1>0, <2>1, <2>2, <2>3 DEF BuildInv, TypeOK
    <3>2. Translation[k] = Content(source[args[k]], "whole")
      BY <2>3 DEF Translation
    <3> QED BY <3>1, <3>2 DEF Loaded, Content
  <2>4. namespaces' = Translation
    BY <1>6, <2>3 DEF ReadAst, Translation
  <2> QED BY <2>1, <2>4 DEF BuildInv, Translation
<1>7. CASE CannotRead
  BY <1>7 DEF CannotRead, Exit, BuildInv
<1>8. CASE Translate
  <2>1. /\ pc = "transpile" /\ pc' = "compile" /\ c_file'[args[1]] = namespaces
        /\ UNCHANGED <<source, readable, args, mode, unseen>>
    BY <1>0, <1>8 DEF Translate, TypeOK, call
  <2>2. Seen /\ mode = "sd"
    BY <2>1 DEF Seen
  <2> QED BY <2>1, <2>2 DEF BuildInv, Translation
<1>9. CASE Reject
  <2>1. exit_code' = 1 /\ pc' \in {"rest", "run"}
    BY <1>9 DEF Reject, Return, Exit
  <2> QED BY <2>1 DEF BuildInv
<1>10. CASE GiveUp
  BY <1>10 DEF GiveUp, Exit, BuildInv
<1>11. CASE Compile
  <2>1. /\ pc = "compile" /\ pc' \in {"rest", "run"}
        /\ UNCHANGED <<source, readable, args, mode, unseen, c_file>>
    BY <1>11 DEF Compile, Return, call
  <2>2. Seen /\ mode = "sd"
    BY <2>1 DEF Seen
  <2> QED BY <2>1, <2>2 DEF BuildInv, Translation
<1>12. CASE RunProgram
  BY <1>12 DEF RunProgram, TypeOK, call
<1>13. CASE KillTool
  <2>1. unseen' = TRUE \/ (pc' = "rest" /\ exit_code' = 1)
    BY <1>13 DEF KillTool, Exit
  <2> QED BY <2>1 DEF Seen, BuildInv
<1>14. CASE KillSd
  BY <1>14 DEF KillSd, Exit, Killed, BuildInv
<1>15. CASE UNCHANGED vars
  BY <1>15 DEF vars, call, disk, BuildInv, Seen, Translation
<1> QED
  BY <1>1, <1>2, <1>3, <1>4, <1>5, <1>6, <1>7, <1>8, <1>9, <1>10, <1>11, <1>12, <1>13, <1>14,
     <1>15 DEF Next

(* A build that reports success translated the sources as they are, each   *)
(* of them and all of each, whatever earlier builds left.                  *)
THEOREM SuccessIsCurrent == Spec => []BuiltFromSources
<1>1. Init => BuildInv
  BY DEF Init, BuildInv
<1>2. BuildInv => BuiltFromSources
  BY DEF BuildInv, BuiltFromSources, Seen, Translation
<1> QED BY <1>1, <1>2, BuildInvStep, TypeCorrect, PTL DEF Spec

=============================================================================
