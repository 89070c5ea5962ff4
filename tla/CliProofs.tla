------------------------------ MODULE CliProofs ------------------------------
(***************************************************************************)
(* Proofs about Cli, for every set of files, every set of command lines    *)
(* and whatever the user does between two invocations.                     *)
(***************************************************************************)
EXTENDS Cli, ReportersProofs, TLAPS

-----------------------------------------------------------------------------
(* Until the report is made, nothing has been printed and no file has      *)
(* changed.                                                                *)
Untouched ==
    phase \in {"options", "configure", "validate", "suppress", "report"} =>
      disk = before /\ out = Nothing

(* A directory in which nothing has been run yet is untouched.             *)
LEMMA UntouchedInit == Init => Untouched /\ FailureLeavesNothing
  BY DEF Init, Untouched, FailureLeavesNothing, Nothing

(* An invocation begins with the directory as the user left it; of its     *)
(* phases before the report none changes it.                               *)
LEMMA UntouchedStep == Untouched /\ [Next]_vars => Untouched'
<1> SUFFICES ASSUME Untouched, [Next]_vars PROVE Untouched'
  OBVIOUS
<1> USE DEF Untouched, Go, Exit
<1>1. CASE ParseArgs
  BY <1>1 DEF ParseArgs
<1>2. CASE Configure
  BY <1>2 DEF Configure
<1>3. CASE Validate
  BY <1>3 DEF Validate
<1>4. CASE ValidateThrows
  BY <1>4 DEF ValidateThrows
<1>5. CASE Suppress
  BY <1>5 DEF Suppress
<1>6. CASE Report
  BY <1>6 DEF Report
<1>7. CASE ReportFails
  BY <1>7 DEF ReportFails
<1>8. CASE ReportThrows
  BY <1>8 DEF ReportThrows
<1>9. CASE Finish
  BY <1>9 DEF Finish
<1>10. CASE Invoke
  BY <1>10 DEF Invoke
<1>11. CASE UNCHANGED vars
  BY <1>11 DEF vars
<1> QED
  BY <1>1, <1>2, <1>3, <1>4, <1>5, <1>6, <1>7, <1>8, <1>9, <1>10, <1>11 DEF Next, Main

(* What makes a report impossible does not change while it is made.        *)
LEMMA UndumpableStays == UNCHANGED <<args, violations, results>> => Undumpable' = Undumpable
  BY DEF Undumpable, Format, Mode

(* A run that ends with 2 or by an exception stops before the report, but  *)
(* for ReportThrows, which empties the output file.                        *)
LEMMA FailureStep ==
    Untouched /\ FailureLeavesNothing /\ [Next]_vars => FailureLeavesNothing'
<1> SUFFICES ASSUME Untouched, FailureLeavesNothing, [Next]_vars,
                    phase' = "exited", status' \in {2, Abort}
             PROVE  /\ out' = Nothing
                    /\ \A f \in DOMAIN disk' : disk'[f] # before'[f] =>
                         f = args'.output /\ disk'[f] = Empty /\ Undumpable'
  BY DEF FailureLeavesNothing, Nothing, Empty, Abort
<1>1. CASE ParseArgs
  BY <1>1 DEF ParseArgs, Untouched
<1>2. CASE Configure
  BY <1>2 DEF Configure, Untouched
<1>3. CASE Validate
  <2>1. AfterValidation \in {"suppress", "report"}
    BY DEF AfterValidation
  <2> QED
    BY <1>3, <2>1 DEF Validate, Go
<1>4. CASE ValidateThrows
  BY <1>4 DEF ValidateThrows, Untouched
<1>5. CASE Suppress
  BY <1>5 DEF Suppress, Untouched
<1>6. CASE Report
  BY <1>6 DEF Report, Go
<1>7. CASE ReportFails
  BY <1>7 DEF ReportFails, Untouched
<1>8. CASE ReportThrows
  <2>1. out = Nothing /\ disk = before
    BY <1>8 DEF ReportThrows, Untouched
  <2>2. Undumpable'
    BY <1>8, UndumpableStays DEF ReportThrows
  <2>3. disk' = IF Openable THEN [disk EXCEPT ![args.output] = Empty] ELSE disk
    BY <1>8 DEF ReportThrows
  <2>4. ASSUME NEW f \in DOMAIN disk', disk'[f] # before[f]
        PROVE  f = args.output /\ disk'[f] = Empty
    BY <2>1, <2>3, <2>4
  <2> QED
    BY <1>8, <2>1, <2>2, <2>4 DEF ReportThrows
<1>9. CASE Finish
  BY <1>9 DEF Finish, Exit, Abort
<1>10. CASE Invoke
  BY <1>10 DEF Invoke
<1>11. CASE UNCHANGED vars
  <2>1. Undumpable' = Undumpable
    BY <1>11, UndumpableStays DEF vars
  <2> QED
    BY <1>11, <2>1 DEF vars, FailureLeavesNothing
<1> QED
  BY <1>1, <1>2, <1>3, <1>4, <1>5, <1>6, <1>7, <1>8, <1>9, <1>10, <1>11 DEF Next, Main

(* A run that fails leaves nothing behind but, where the report could not  *)
(* be made, an empty output file.                                          *)
THEOREM NothingLeft == Spec => []FailureLeavesNothing
<1> QED
  BY UntouchedInit, UntouchedStep, FailureStep, PTL DEF Spec

-----------------------------------------------------------------------------
(* What a run has validated, and what it has not: results are those of the *)
(* first inputs, as the files were when the run began, and pending are the *)
(* others.  A failure is among the results of a batch only.                *)
Accounted ==
    /\ args \in CommandLine
    /\ results \in Seq(Range(results))
    /\ phase \in {"options", "configure"} => results = <<>>
    /\ \A k \in 1..Len(results) : /\ results[k] = Result(before[Inputs[k]])
                                  /\ results[k].failed => Mode = "batch"
    /\ phase \in {"validate", "suppress", "report", "exit"} => ~NoWork
    /\ phase = "validate" =>
         /\ pending \in Seq(Files) /\ pending # <<>>
         /\ Len(results) + Len(pending) = Len(Inputs)
         /\ \A k \in 1..Len(pending) : pending[k] = Inputs[Len(results) + k]
    /\ phase \in {"suppress", "report", "exit"} => Len(results) = Len(Inputs)
    /\ Validated => ~NoWork /\ Len(results) = Len(Inputs)

(* The files that are to be validated, once it is clear that there is work *)
(* to do.                                                                  *)
LEMMA InputsType ==
    ASSUME args \in CommandLine, ~NoWork
    PROVE  /\ Inputs \in Seq(Files)
           /\ Inputs # <<>>
           /\ Len(Inputs) <= Len(args.inputs)
           /\ \A i \in 1..Len(Inputs) : Inputs[i] = args.inputs[i]
           /\ Mode = "diff" => Len(Inputs) = 2
           /\ Mode = "batch" => Inputs = args.inputs
<1>1. args.inputs \in Seq(Files) /\ args.inputs # <<>>
  BY DEF CommandLine, NoWork
<1>2. Len(args.inputs) \in Nat \ {0}
  BY <1>1, EmptySeq
<1>3. Mode = "diff" => Len(args.inputs) >= 2
  BY <1>2 DEF Mode, NoWork
<1>4. CASE Mode = "batch"
  BY <1>1, <1>4 DEF Inputs
<1>5. CASE Mode # "batch"
  <2> DEFINE n == IF Mode = "diff" THEN 2 ELSE 1
  <2>1. n \in 1..Len(args.inputs)
    BY <1>2, <1>3
  <2>2. Inputs = SubSeq(args.inputs, 1, n)
    BY <1>5 DEF Inputs
  <2> HIDE DEF n
  <2>3. /\ Inputs \in Seq(Files)
        /\ Len(Inputs) = n
        /\ \A i \in 1..n : Inputs[i] = args.inputs[i]
    BY <1>1, <2>1, <2>2, SubSeqProperties
  <2> QED
    BY <1>2, <1>5, <2>1, <2>3, EmptySeq DEF n
<1> QED
  BY <1>4, <1>5

(* What appending does to a sequence of whatever members.                  *)
LEMMA Grown ==
    ASSUME NEW s, s \in Seq(Range(s)), NEW x
    PROVE  /\ Append(s, x) \in Seq(Range(Append(s, x)))
           /\ Len(s) \in Nat
           /\ Len(Append(s, x)) = Len(s) + 1
           /\ \A i \in 1..Len(s) : Append(s, x)[i] = s[i]
           /\ Append(s, x)[Len(s) + 1] = x
<1> DEFINE S == Range(s) \cup {x}
<1>1. s \in Seq(S)
  BY SeqMonotonic
<1>2. x \in S
  OBVIOUS
<1> HIDE DEF S
<1>3. /\ Append(s, x) \in Seq(S)
      /\ Len(Append(s, x)) = Len(s) + 1
      /\ \A i \in 1..Len(s) : Append(s, x)[i] = s[i]
      /\ Append(s, x)[Len(s) + 1] = x
  BY <1>1, <1>2, AppendProperties
<1>4. Append(s, x) \in Seq(Range(Append(s, x)))
  BY <1>3, SeqOfRange
<1>5. Len(s) \in Nat
  BY LenProperties
<1> QED
  BY <1>3, <1>4, <1>5

(* What is said of a file depends on command line and thresholds only.     *)
LEMMA PlanStays == UNCHANGED args => Plan' = Plan
  BY DEF Plan
LEMMA FindingsStay == ASSUME NEW c PROVE UNCHANGED thresholds => Findings(c)' = Findings(c)
  BY DEF Findings

LEMMA VerdictStays == ASSUME NEW c, UNCHANGED <<args, thresholds>> PROVE Verdict(c)' = Verdict(c)
<1>1. Plan' = Plan /\ Findings(c)' = Findings(c)
  BY PlanStays, FindingsStay
<1> QED
  BY <1>1 DEF Verdict

LEMMA ResultStays == ASSUME NEW c, UNCHANGED <<args, thresholds>> PROVE Result(c)' = Result(c)
<1>1. Plan' = Plan /\ Verdict(c)' = Verdict(c)
  BY PlanStays, VerdictStays
<1>2. Fails(c)' = Fails(c)
  BY <1>1 DEF Fails
<1> QED
  BY <1>1, <1>2 DEF Result

(* Before the first run there are no results to account for.               *)
LEMMA AccountedInit == Init => Accounted
<1> SUFFICES ASSUME Init PROVE Accounted
  OBVIOUS
<1>1. results = <<>> /\ results \in Seq(Range(results)) /\ Len(results) = 0
  BY EmptySeq DEF Init
<1> QED
  BY <1>1, CommandLinesType DEF Init, Accounted, Validated

(* A step that leaves command line, thresholds and results alone leaves    *)
(* what is said of the results true.                                       *)
LEMMA ResultsStay ==
    ASSUME Accounted, UNCHANGED <<before, args, thresholds, results>>
    PROVE  /\ args' \in CommandLine
           /\ results' \in Seq(Range(results'))
           /\ \A k \in 1..Len(results') : /\ results'[k] = Result(before[Inputs[k]])'
                                          /\ results'[k].failed => Mode' = "batch"
           /\ Inputs' = Inputs
           /\ NoWork' = NoWork
<1>1. Inputs' = Inputs /\ Mode' = Mode /\ NoWork' = NoWork
  BY DEF Inputs, Mode, NoWork
<1>2. ASSUME NEW k \in 1..Len(results)
      PROVE  Result(before[Inputs[k]])' = Result(before[Inputs[k]])
  BY <1>1, ResultStays
<1> QED
  BY <1>1, <1>2 DEF Accounted

(* Validate moves one file from pending to the results; every other step   *)
(* leaves both alone or begins a new run.                                  *)
LEMMA AccountedStep ==
    Accounted /\ Untouched /\ [Next]_vars => Accounted'
<1> SUFFICES ASSUME Accounted, Untouched, [Next]_vars PROVE Accounted'
  OBVIOUS
<1>0. Len(<<>>) = 0 /\ <<>> \in Seq(Range(<<>>))
  BY EmptySeq
<1>1. CASE ParseArgs
  <2>1. results = <<>> /\ UNCHANGED <<before, args, thresholds, results, pending>>
        /\ phase' \in {"configure", "exited"}
    BY <1>1 DEF ParseArgs, Accounted, Go, Exit
  <2> QED
    BY <2>1, ResultsStay DEF Accounted, Validated
<1>2. CASE Configure
  <2>1. results = <<>> /\ results' = <<>> /\ args' = args /\ phase' \in {"validate", "exited"}
    BY <1>2 DEF Configure, Accounted, Go, Exit
  <2>2. phase' = "validate" => Early = {} /\ pending' = Inputs
    BY <1>2 DEF Configure, Go, Exit
  <2>3. Early = {} => ~NoWork
    BY DEF Early
  <2>4. phase' = "validate" => /\ pending' \in Seq(Files) /\ pending' # <<>>
                               /\ Len(pending') \in Nat
                               /\ pending' = Inputs'
                               /\ ~NoWork'
    BY <2>1, <2>2, <2>3, InputsType, LenProperties DEF Accounted, Inputs, Mode, NoWork
  <2> QED
    BY <1>0, <2>1, <2>4 DEF Accounted, Validated
<1>3. CASE Validate
  <2> DEFINE r == Result(disk[Head(pending)])
  <2>1. /\ phase = "validate" /\ disk = before
        /\ UNCHANGED <<before, args, thresholds>>
        /\ r.failed => Mode = "batch"
        /\ results' = Append(results, r)
        /\ pending' = Tail(pending)
        /\ phase' = IF Tail(pending) = <<>> THEN AfterValidation ELSE "validate"
    BY <1>3 DEF Validate, Go, Untouched
  <2>2. Inputs' = Inputs /\ Mode' = Mode
    BY <2>1 DEF Inputs, Mode
  <2>3. /\ results \in Seq(Range(results))
        /\ pending \in Seq(Files) /\ pending # <<>>
        /\ Len(results) + Len(pending) = Len(Inputs)
        /\ \A k \in 1..Len(pending) : pending[k] = Inputs[Len(results) + k]
    BY <2>1 DEF Accounted, Validated
  <2>4. /\ results' \in Seq(Range(results'))
        /\ Len(results) \in Nat
        /\ Len(results') = Len(results) + 1
        /\ \A i \in 1..Len(results) : results'[i] = results[i]
        /\ results'[Len(results) + 1] = r
    <3> HIDE DEF r
    <3> QED
      BY <2>1, <2>3, Grown
  <2>5. /\ Len(pending) \in Nat \ {0}
        /\ Head(pending) = pending[1]
        /\ Tail(pending) \in Seq(Files)
        /\ Len(Tail(pending)) = Len(pending) - 1
        /\ \A i \in 1..Len(Tail(pending)) : Tail(pending)[i] = pending[i + 1]
    BY <2>3, EmptySeq, HeadTailProperties
  <2>6. r = Result(before[Inputs[Len(results) + 1]])
    BY <2>1, <2>3, <2>5
  <2>7. ASSUME NEW k \in 1..Len(results')
        PROVE  /\ results'[k] = Result(before[Inputs[k]])'
               /\ results'[k].failed => Mode' = "batch"
    <3>1. Result(before[Inputs[k]])' = Result(before[Inputs[k]])
      BY <2>1, <2>2, ResultStays
    <3> QED
      BY <2>1, <2>2, <2>4, <2>6, <3>1 DEF Accounted
  <2>8. /\ Len(results') + Len(pending') = Len(Inputs')
        /\ \A k \in 1..Len(pending') : pending'[k] = Inputs'[Len(results') + k]
    BY <2>1, <2>2, <2>3, <2>4, <2>5
  <2>9. Tail(pending) = <<>> => Len(results') = Len(Inputs')
    <3> HIDE DEF r
    <3>1. ASSUME Tail(pending) = <<>> PROVE Len(pending') = 0
      BY <1>0, <2>1, <3>1
    <3> QED
      BY <2>4, <2>8, <3>1
  <2>10. AfterValidation \in {"suppress", "report"}
    BY DEF AfterValidation
  <2>11. args' \in CommandLine /\ ~NoWork'
    BY <2>1 DEF Accounted, NoWork
  <2> QED
    BY <2>1, <2>4, <2>5, <2>7, <2>8, <2>9, <2>10, <2>11 DEF Accounted, Validated
<1>4. CASE ValidateThrows
  <2>1. UNCHANGED <<before, args, thresholds, results>> /\ phase' = "exited" /\ status' \notin {0, 1}
    BY <1>4 DEF ValidateThrows, Exit, Abort
  <2> QED
    BY <2>1, ResultsStay DEF Accounted, Validated
<1>5. CASE Suppress
  <2>1. /\ UNCHANGED <<before, args, thresholds, results>>
        /\ phase = "suppress"
        /\ phase' = "report" \/ (phase' = "exited" /\ status' \notin {0, 1})
    BY <1>5 DEF Suppress, Exit, Go, Abort
  <2> QED
    BY <2>1, ResultsStay DEF Accounted, Validated
<1>6. CASE Report
  <2>1. UNCHANGED <<before, args, thresholds, results>> /\ phase = "report" /\ phase' = "exit"
    BY <1>6 DEF Report, Go
  <2> QED
    BY <2>1, ResultsStay DEF Accounted, Validated
<1>7. CASE ReportFails
  <2>1. /\ UNCHANGED <<before, args, thresholds, results>>
        /\ phase = "report"
        /\ phase' = "exit" \/ (phase' = "exited" /\ status' \notin {0, 1})
    BY <1>7 DEF ReportFails, Exit, Go, Abort
  <2> QED
    BY <2>1, ResultsStay DEF Accounted, Validated
<1>8. CASE ReportThrows
  <2>1. UNCHANGED <<before, args, thresholds, results>> /\ phase' = "exited" /\ status' \notin {0, 1}
    BY <1>8 DEF ReportThrows, Exit, Abort
  <2> QED
    BY <2>1, ResultsStay DEF Accounted, Validated
<1>9. CASE Finish
  <2>1. UNCHANGED <<before, args, thresholds, results>> /\ phase = "exit" /\ phase' = "exited"
    BY <1>9 DEF Finish, Exit
  <2> QED
    BY <2>1, ResultsStay DEF Accounted, Validated
<1>10. CASE Invoke
  <2>1. results' = <<>> /\ args' \in CommandLine /\ phase' = "options"
    BY <1>10, CommandLinesType DEF Invoke
  <2> QED
    BY <1>0, <2>1 DEF Accounted, Validated
<1>11. CASE UNCHANGED vars
  <2>1. UNCHANGED <<before, args, thresholds, pending, results, phase, status>>
    BY <1>11 DEF vars
  <2> QED
    BY <2>1, ResultsStay DEF Accounted, Validated
<1> QED
  BY <1>1, <1>2, <1>3, <1>4, <1>5, <1>6, <1>7, <1>8, <1>9, <1>10, <1>11 DEF Next, Main

(* A diff that introduces no key introduces no error in a new place.       *)
LEMMA NoNewKeys ==
    ASSUME NEW old, NEW new, NewKeys(old, new) = {}
    PROVE  {Key(v) : v \in Errors(new)} \subseteq Keys(old)
<1>1. Keys(new) \subseteq Keys(old)
  BY DEF NewKeys
<1> QED
  BY <1>1 DEF Keys, Errors

(* Only the last step of a run gives the exit code 0 to one that has       *)
(* results.                                                                *)
LEMMA OnlyFinish ==
    ASSUME Accounted, [Next]_vars, Validated', status' = 0
    PROVE  Finish \/ UNCHANGED vars
<1> USE DEF Validated, Exit, Go, Abort
<1>1. CASE ParseArgs
  BY <1>1 DEF ParseArgs, Accounted
<1>2. CASE Configure
  BY <1>2 DEF Configure, Accounted
<1>3. CASE Validate
  BY <1>3 DEF Validate, AfterValidation
<1>4. CASE ValidateThrows
  BY <1>4 DEF ValidateThrows
<1>5. CASE Suppress
  BY <1>5 DEF Suppress
<1>6. CASE Report
  BY <1>6 DEF Report
<1>7. CASE ReportFails
  BY <1>7 DEF ReportFails
<1>8. CASE ReportThrows
  BY <1>8 DEF ReportThrows
<1>9. CASE Invoke
  BY <1>9 DEF Invoke
<1> QED
  BY <1>1, <1>2, <1>3, <1>4, <1>5, <1>6, <1>7, <1>8, <1>9 DEF Next, Main

(* A result that is no failure is the verdict on the file.                 *)
LEMMA Passed ==
    ASSUME NEW c, ~Result(c).failed
    PROVE  Result(c).found = Verdict(c)
<1>1. ~Fails(c)
  BY DEF Result
<1> QED
  BY <1>1 DEF Result

(* In a diff that is about to end, the two results are the verdicts about  *)
(* the two files as they were when it began.                               *)
LEMMA BothRead ==
    ASSUME Accounted, phase = "exit", Mode = "diff", NEW k \in 1..2
    PROVE  results[k].found = Verdict(before[args.inputs[k]])
<1>1. Len(results) = 2 /\ Inputs[k] = args.inputs[k]
  BY InputsType DEF Accounted
<1>2. results[k] = Result(before[args.inputs[k]]) /\ ~results[k].failed
  BY <1>1 DEF Accounted
<1> QED
  BY <1>2, Passed

(* The step that ends a diff keeps the promise, and no other makes one.    *)
LEMMA DiffStep ==
    Accounted /\ DiffZeroMeansNoNewPlace /\ [Next]_vars => DiffZeroMeansNoNewPlace'
<1> SUFFICES ASSUME Accounted, DiffZeroMeansNoNewPlace, [Next]_vars,
                    Validated', status' = 0, Mode' = "diff"
             PROVE  ({Key(v) : v \in Errors(Verdict(before[args.inputs[2]]))}
                       \subseteq Keys(Verdict(before[args.inputs[1]])))'
  BY DEF DiffZeroMeansNoNewPlace
<1>1. UNCHANGED <<before, args, thresholds>>
  BY OnlyFinish DEF Finish, vars
<1>2. Verdict(before[args.inputs[1]])' = Verdict(before[args.inputs[1]])
  BY <1>1, VerdictStays
<1>3. Verdict(before[args.inputs[2]])' = Verdict(before[args.inputs[2]])
  BY <1>1, VerdictStays
<1> SUFFICES {Key(v) : v \in Errors(Verdict(before[args.inputs[2]]))}
               \subseteq Keys(Verdict(before[args.inputs[1]]))
  BY <1>2, <1>3
<1>4. CASE Finish
  <2>1. phase = "exit" /\ Mode = "diff" /\ Introduced = {}
    BY <1>1, <1>4 DEF Finish, Exit, Rejected, Mode
  <2>2. ASSUME NEW k \in 1..2 PROVE results[k].found = Verdict(before[args.inputs[k]])
    BY <2>1, BothRead
  <2> QED
    BY <2>1, <2>2, NoNewKeys DEF Introduced
<1>5. CASE UNCHANGED vars
  BY <1>5 DEF vars, DiffZeroMeansNoNewPlace, Validated, Mode
<1> QED
  BY <1>4, <1>5, OnlyFinish

(* A diff that exits 0 has compared the two files as they were when it     *)
(* began, and found no error of the second in a place where the first had  *)
(* nothing to report.                                                      *)
THEOREM NoNewPlace == Spec => []DiffZeroMeansNoNewPlace
<1>1. Init => DiffZeroMeansNoNewPlace
  BY DEF Init, DiffZeroMeansNoNewPlace, Validated
<1> QED
  BY <1>1, UntouchedInit, UntouchedStep, AccountedInit, AccountedStep, DiffStep, PTL DEF Spec

-----------------------------------------------------------------------------
(* The variables have their types, and the directory was one when the run  *)
(* began.                                                                  *)
Typed == TypeOK /\ IsDirectory(before)

(* What is said of a report as it is made.                                 *)
LEMMA ReportIs ==
    ASSUME NEW r \in Reports
    PROVE  r.kind = "report" /\ r.format = Format /\ r.doc = Document
<1>1. PICK y \in (IF Format \in {"text", "diff"} THEN BOOLEAN ELSE {TRUE}) :
        r = [kind |-> "report", format |-> Format, doc |-> Document, yaml |-> y]
  BY DEF Reports
<1> QED
  BY <1>1

(* A file that is written becomes what is written, and the others stay.    *)
LEMMA WrittenDirectory ==
    ASSUME NEW d, IsDirectory(d), NEW f \in Files, NEW c, IsFile(c)
    PROVE  /\ IsDirectory([d EXCEPT ![f] = c])
           /\ [d EXCEPT ![f] = c][f] = c
  BY DEF IsDirectory

(* Init has the types.                                                     *)
LEMMA TypedInit == Init => Typed
<1> SUFFICES ASSUME Init PROVE Typed
  OBVIOUS
<1>1. /\ args \in CommandLine
      /\ IsDirectory(disk)
      /\ before = disk
  BY CommandLinesType, DisksType DEF Init
<1>2. Len(args.inputs) \in Nat
  BY <1>1, LenProperties DEF CommandLine
<1>3. /\ pending \in Seq(Files)
      /\ Len(results) + Len(pending) <= Len(args.inputs)
  BY <1>2, EmptySeq DEF Init
<1> QED
  BY <1>1, <1>3 DEF Init, Typed, TypeOK, Phases, Nothing

(* A step that touches neither files nor output keeps the types if it      *)
(* keeps the phase and the exit code in range.                             *)
LEMMA TypedStays ==
    ASSUME Typed, UNCHANGED <<disk, before, args, thresholds, pending, results, out>>,
           phase' \in Phases, status' \in {0, 1, 2, Abort}
    PROVE  Typed'
  BY DEF Typed, TypeOK

(* Every step keeps the types.                                             *)
LEMMA TypedStep == Accounted /\ Typed /\ [Next]_vars => Typed'
<1> SUFFICES ASSUME Accounted, Typed, [Next]_vars PROVE Typed'
  OBVIOUS
<1>0. /\ args \in CommandLine /\ Len(args.inputs) \in Nat
      /\ Len(results) \in Nat /\ Len(pending) \in Nat
      /\ Len(<<>>) = 0 /\ <<>> \in Seq(Files)
  BY LenProperties, EmptySeq DEF Accounted, CommandLine, Typed, TypeOK
<1>1. CASE ParseArgs
  BY <1>1, TypedStays DEF ParseArgs, Exit, Go, Phases, Typed, TypeOK
<1>2. CASE Configure
  <2>1. /\ UNCHANGED <<disk, before, args, results, out>>
        /\ thresholds' \in {"default", "custom"}
        /\ pending' = IF Early = {} THEN Inputs ELSE <<>>
        /\ results = <<>>
    BY <1>2 DEF Configure, Accounted, Thresholds
  <2>2. phase' \in Phases /\ status' \in {0, 1, 2, Abort}
    <3>1. Early \subseteq {0, 2, Abort}
      BY DEF Early
    <3> QED
      BY <1>2, <3>1 DEF Configure, Exit, Go, Phases, Typed, TypeOK
  <2>3. Early = {} => ~NoWork
    BY DEF Early
  <2>4. pending' \in Seq(Files) /\ Len(results') + Len(pending') <= Len(args'.inputs)
    <3>1. CASE Early = {}
      <4>1. Inputs \in Seq(Files) /\ Len(Inputs) <= Len(args.inputs)
        BY <1>0, <2>3, <3>1, InputsType
      <4>2. Len(Inputs) \in Nat
        BY <4>1, LenProperties
      <4> QED
        BY <1>0, <2>1, <3>1, <4>1, <4>2
    <3>2. CASE Early # {}
      BY <1>0, <2>1, <3>2
    <3> QED
      BY <3>1, <3>2
  <2> QED
    BY <2>1, <2>2, <2>4 DEF Typed, TypeOK
<1>3. CASE Validate
  <2>1. /\ UNCHANGED <<disk, before, args, thresholds, out, status>>
        /\ results' = Append(results, Result(disk[Head(pending)]))
        /\ pending' = Tail(pending)
        /\ phase' \in Phases
    BY <1>3 DEF Validate, Go, Phases, AfterValidation
  <2>2. /\ pending \in Seq(Files) /\ pending # <<>>
        /\ Len(results) + Len(pending) <= Len(args.inputs)
        /\ results \in Seq(Range(results))
    BY <1>3 DEF Validate, Accounted, Typed, TypeOK
  <2>3. Len(results') = Len(results) + 1
    BY <2>1, <2>2, Grown
  <2>4. pending' \in Seq(Files) /\ Len(pending') = Len(pending) - 1
    BY <2>1, <2>2, HeadTailProperties
  <2>5. Len(results') + Len(pending') <= Len(args'.inputs)
    BY <1>0, <2>1, <2>2, <2>3, <2>4
  <2> QED
    BY <2>1, <2>4, <2>5 DEF Typed, TypeOK
<1>4. CASE ValidateThrows
  BY <1>4, TypedStays DEF ValidateThrows, Exit, Phases
<1>5. CASE Suppress
  BY <1>5, TypedStays DEF Suppress, Exit, Go, Phases, Typed, TypeOK
<1>6. CASE Report
  <2>1. UNCHANGED <<before, args, thresholds, pending, results, status>> /\ phase' = "exit"
    BY <1>6 DEF Report, Go
  <2>2. \/ out' \in Reports /\ disk' = disk
        \/ /\ out' = out /\ args.output \in Files
           /\ \E r \in Reports : disk' = [disk EXCEPT ![args.output] = r]
    BY <1>6 DEF Report, Openable
  <2>3. IsDirectory(disk')
    BY <2>2, ReportIs, WrittenDirectory DEF Typed, TypeOK, IsFile
  <2>4. out'.kind \in {"absent", "report"}
    BY <2>2, ReportIs DEF Typed, TypeOK
  <2> QED
    BY <2>1, <2>3, <2>4 DEF Typed, TypeOK, Phases
<1>7. CASE ReportFails
  BY <1>7, TypedStays DEF ReportFails, Exit, Go, Phases, Typed, TypeOK
<1>8. CASE ReportThrows
  <2>1. /\ UNCHANGED <<before, args, thresholds, pending, results, out>>
        /\ phase' = "exited" /\ status' = Abort
    BY <1>8 DEF ReportThrows, Exit
  <2>2. IsDirectory(disk')
    <3>1. disk' = disk \/ (args.output \in Files /\ disk' = [disk EXCEPT ![args.output] = Empty])
      BY <1>8 DEF ReportThrows, Openable
    <3>2. IsFile(Empty)
      BY DEF IsFile, Empty
    <3> QED
      BY <3>1, <3>2, WrittenDirectory DEF Typed, TypeOK
  <2> QED
    BY <2>1, <2>2 DEF Typed, TypeOK, Phases
<1>9. CASE Finish
  BY <1>9, TypedStays DEF Finish, Exit, Phases
<1>10. CASE Invoke
  <2>1. args' \in CommandLine /\ args' \in CommandLines
    BY <1>10, CommandLinesType DEF Invoke
  <2>2. Len(args'.inputs) \in Nat
    BY <2>1, LenProperties DEF CommandLine
  <2>3. IsDirectory(disk') /\ before' = disk'
    BY <1>10 DEF Invoke
  <2>4. pending' = <<>> /\ results' = <<>>
    BY <1>10 DEF Invoke
  <2>5. Len(results') + Len(pending') <= Len(args'.inputs)
    BY <1>0, <2>2, <2>4
  <2> QED
    BY <1>0, <1>10, <2>1, <2>3, <2>4, <2>5 DEF Invoke, Typed, TypeOK, Phases, Nothing
<1>11. CASE UNCHANGED vars
  BY <1>11 DEF vars, Typed, TypeOK
<1> QED
  BY <1>1, <1>2, <1>3, <1>4, <1>5, <1>6, <1>7, <1>8, <1>9, <1>10, <1>11 DEF Next, Main

(* The variables have their types.                                         *)
THEOREM TypeCorrect == Spec => []TypeOK
<1>1. Typed => TypeOK
  BY DEF Typed
<1> QED
  BY <1>1, UntouchedInit, UntouchedStep, AccountedInit, AccountedStep, TypedInit, TypedStep, PTL DEF Spec

-----------------------------------------------------------------------------
(* What a run that has made its report has to show for it: the violations  *)
(* the ignore file leaves, the report where it belongs (a batch goes on    *)
(* without a file it cannot open), and the exit code that goes with them.  *)
Done == phase = "exit" \/ Validated

Filtered ==
    (phase = "report" \/ Done) /\ Mode = "single" =>
      violations = Unsuppressed(results[1].found, before)
InPlace == Done /\ (args.output \notin Unwritable \/ Mode # "batch") => Written \in Reports
Coded   == Validated => (status = 1 <=> Rejected)

Told == Filtered /\ InPlace /\ Coded

(* The report depends on command line, results and violations only.        *)
LEMMA ReportsStay ==
    UNCHANGED <<args, violations, results>> =>
      /\ Reports' = Reports /\ Mode' = Mode /\ Rejected' = Rejected
  BY DEF Reports, Document, Format, Mode, WithErrors, BatchEntry, Rejected, Introduced

(* Before the report there is nothing to show.                             *)
LEMMA ToldInit == Init => Told
  BY DEF Init, Told, Filtered, InPlace, Coded, Done, Validated

(* A run that ends without a report has no exit code 0 or 1, or no         *)
(* results.                                                                *)
LEMMA NotDone ==
    ASSUME phase' \notin {"report", "exit"}, phase' = "exited" => status' \notin {0, 1} \/ results' = <<>>
    PROVE  Told'
  BY DEF Told, Filtered, InPlace, Coded, Done, Validated

(* Suppress makes the violations, Report the document, Finish the exit     *)
(* code of what is there; no step in between changes it.                   *)
LEMMA ToldStep == Untouched /\ Accounted /\ Typed /\ Told /\ [Next]_vars => Told'
<1> SUFFICES ASSUME Untouched, Accounted, Typed, Told, [Next]_vars PROVE Told'
  OBVIOUS
<1>1. CASE ParseArgs
  BY <1>1, NotDone DEF ParseArgs, Exit, Go, Accounted
<1>2. CASE Configure
  BY <1>2, NotDone DEF Configure, Exit, Go, Accounted
<1>3. CASE Validate
  <2>1. phase' \in {"validate", "suppress"} \/ (phase' = "report" /\ Mode # "single")
    BY <1>3 DEF Validate, Go, AfterValidation
  <2>2. Mode' = Mode
    BY <1>3 DEF Validate, Mode
  <2> QED
    BY <2>1, <2>2 DEF Told, Filtered, InPlace, Coded, Done, Validated
<1>4. CASE ValidateThrows
  BY <1>4, NotDone DEF ValidateThrows, Exit, Abort
<1>5. CASE Suppress
  <2>1. CASE phase' = "exited"
    BY <1>5, <2>1, NotDone DEF Suppress, Exit, Go, Abort
  <2>2. CASE phase' # "exited"
    <3>1. /\ phase' = "report" /\ UNCHANGED <<disk, before, args, results>>
          /\ violations' = Unsuppressed(results[1].found, disk)
          /\ disk = before
      BY <1>5, <2>2 DEF Suppress, Exit, Go, Untouched
    <3>2. Unsuppressed(results[1].found, before)' = Unsuppressed(results[1].found, before)
      BY <3>1 DEF Unsuppressed, Silenced, Suppressions, Silences
    <3> QED
      BY <3>1, <3>2 DEF Told, Filtered, InPlace, Coded, Done, Validated
  <2> QED
    BY <2>1, <2>2
<1>6. CASE Report
  <2>1. UNCHANGED <<before, args, results, violations>> /\ phase = "report" /\ phase' = "exit"
    BY <1>6 DEF Report, Go
  <2>2. Reports' = Reports /\ Mode' = Mode
    BY <2>1, ReportsStay
  <2>3. Written' \in Reports
    <3>1. CASE args.output = NoName
      <4>1. args.output \notin Files
        BY <3>1, FilesHaveNames
      <4>2. out' \in Reports
        BY <1>6, <4>1 DEF Report, Openable
      <4> QED
        BY <2>1, <3>1, <4>2 DEF Written
    <3>2. CASE args.output # NoName
      <4>1. args.output \in Files /\ \E r \in Reports : disk' = [disk EXCEPT ![args.output] = r]
        BY <1>6, <3>2 DEF Report, Openable
      <4>2. PICK r \in Reports : disk' = [disk EXCEPT ![args.output] = r]
        BY <4>1
      <4>3. disk'[args.output] = r
        BY <4>1, <4>2 DEF Typed, TypeOK, IsDirectory
      <4> QED
        BY <2>1, <3>2, <4>3 DEF Written
    <3> QED
      BY <3>1, <3>2
  <2>4. Unsuppressed(results[1].found, before)' = Unsuppressed(results[1].found, before)
    BY <2>1 DEF Unsuppressed, Silenced, Suppressions, Silences
  <2> QED
    BY <2>1, <2>2, <2>3, <2>4 DEF Told, Filtered, InPlace, Coded, Done, Validated
<1>7. CASE ReportFails
  <2>1. /\ UNCHANGED <<before, args, results, violations>>
        /\ args.output \in Unwritable
        /\ \/ phase' = "exit" /\ Mode = "batch"
           \/ phase' = "exited" /\ status' \notin {0, 1}
    BY <1>7 DEF ReportFails, Exit, Go, Abort
  <2>2. Mode' = Mode
    BY <2>1, ReportsStay
  <2>3. CASE phase' = "exit"
    BY <2>1, <2>2, <2>3 DEF Told, Filtered, InPlace, Coded, Done, Validated
  <2> QED
    BY <2>1, <2>3, NotDone
<1>8. CASE ReportThrows
  BY <1>8, NotDone DEF ReportThrows, Exit, Abort
<1>9. CASE Finish
  <2>1. /\ UNCHANGED <<disk, before, args, results, violations, out>>
        /\ phase = "exit" /\ phase' = "exited"
        /\ status' = IF Rejected THEN 1 ELSE 0
    BY <1>9 DEF Finish, Exit
  <2>2. Reports' = Reports /\ Mode' = Mode /\ Rejected' = Rejected /\ Written' = Written
    BY <2>1, ReportsStay DEF Written
  <2>3. Unsuppressed(results[1].found, before)' = Unsuppressed(results[1].found, before)
    BY <2>1 DEF Unsuppressed, Silenced, Suppressions, Silences
  <2> QED
    BY <2>1, <2>2, <2>3 DEF Told, Filtered, InPlace, Coded, Done
<1>10. CASE Invoke
  BY <1>10, NotDone DEF Invoke
<1>11. CASE UNCHANGED vars
  <2>1. UNCHANGED <<disk, before, args, results, violations, out, phase, status>>
    BY <1>11 DEF vars
  <2>2. Reports' = Reports /\ Mode' = Mode /\ Rejected' = Rejected /\ Written' = Written
    BY <2>1, ReportsStay DEF Written
  <2>3. Unsuppressed(results[1].found, before)' = Unsuppressed(results[1].found, before)
    BY <2>1 DEF Unsuppressed, Silenced, Suppressions, Silences
  <2> QED
    BY <2>1, <2>2, <2>3 DEF Told, Filtered, InPlace, Coded, Done, Validated
<1> QED
  BY <1>1, <1>2, <1>3, <1>4, <1>5, <1>6, <1>7, <1>8, <1>9, <1>10, <1>11 DEF Next, Main

-----------------------------------------------------------------------------
(* Where a run is done, its results are those of its inputs.               *)
LEMMA DoneResults ==
    ASSUME Accounted, Done
    PROVE  /\ args \in CommandLine /\ Len(Inputs) \in Nat \ {0}
           /\ \A k \in 1..Len(Inputs) :
                /\ args.inputs[k] \in Files
                /\ results[k] = Result(before[args.inputs[k]])
                /\ Mode # "batch" => ~Fails(before[args.inputs[k]])
           /\ results \in Seq(Range(results)) /\ Len(results) = Len(Inputs)
           /\ Mode = "diff" => Len(Inputs) = 2
           /\ Mode = "batch" => Inputs = args.inputs
<1>1. args \in CommandLine /\ ~NoWork /\ Len(results) = Len(Inputs)
  BY DEF Accounted, Done
<1>2. /\ Inputs \in Seq(Files) /\ Inputs # <<>>
      /\ \A k \in 1..Len(Inputs) : Inputs[k] = args.inputs[k]
      /\ Mode = "diff" => Len(Inputs) = 2
      /\ Mode = "batch" => Inputs = args.inputs
  BY <1>1, InputsType
<1>3. Len(Inputs) \in Nat \ {0}
  BY <1>2, EmptySeq
<1>4. ASSUME NEW k \in 1..Len(Inputs)
      PROVE  /\ args.inputs[k] \in Files
             /\ results[k] = Result(before[args.inputs[k]])
             /\ Mode # "batch" => ~Fails(before[args.inputs[k]])
  <2>1. Inputs[k] \in Files
    BY <1>2, ElementOfSeq
  <2>2. results[k] = Result(before[Inputs[k]]) /\ (results[k].failed => Mode = "batch")
    BY <1>1 DEF Accounted
  <2>3. Fails(before[Inputs[k]]) => Result(before[Inputs[k]]).failed
    BY DEF Result
  <2> QED
    BY <1>2, <2>1, <2>2, <2>3
<1> QED
  BY <1>1, <1>2, <1>3, <1>4 DEF Accounted

(* What is found in a file that can be validated is a vector of            *)
(* violations.                                                             *)
LEMMA VerdictType ==
    ASSUME Typed, args \in CommandLine, NEW f \in Files, ~Fails(before[f])
    PROVE  Verdict(before[f]) \in Seq(Violation)
<1> DEFINE c == before[f]
<1>1. Plan \in Seq(Registered)
  <2>1. CASE args.rules = <<>>
    BY <2>1, RegistryIsList DEF Plan
  <2>2. CASE args.rules # <<>>
    <3>1. Plan \in Seq(Registered \cup {"NOPE"}) /\ Range(Plan) \subseteq Registered
      BY <2>2 DEF Plan, CommandLine, Fails
    <3>2. Plan \in Seq(Range(Plan))
      BY <3>1, SeqOfRange
    <3> QED
      BY <3>1, <3>2, SeqMonotonic
  <2> QED
    BY <2>1, <2>2
<1>2. Findings(c) \in [Registered -> Seq(Violation)]
  <2>1. IsFile(c)
    BY DEF Typed, IsDirectory
  <2>2. CASE c.kind = "topology"
    BY <2>1, <2>2 DEF IsFile, Findings, Typed, TypeOK
  <2>3. CASE c.kind # "topology"
    BY <2>3, EmptySeq DEF Findings, NoFindings
  <2> QED
    BY <2>2, <2>3
<1> HIDE DEF c
<1>3. DOMAIN Plan = 1..Len(Plan) /\ Len(Plan) \in Nat /\ \A i \in 1..Len(Plan) : Plan[i] \in Registered
  BY <1>1, LenProperties
<1>4. [i \in DOMAIN Plan |-> Findings(c)[Plan[i]]] \in Seq(Seq(Violation))
  BY <1>2, <1>3
<1> QED
  BY <1>4, Flattened DEF Verdict, c

(* What the ignore file leaves: the violations no entry silences, in       *)
(* order.                                                                  *)
LEMMA UnsuppressedHas ==
    ASSUME NEW vs \in Seq(Violation), NEW d
    PROVE  /\ Unsuppressed(vs, d) \in Seq(Violation)
           /\ \A v \in Range(vs) : ~Silenced(v, d) => v \in Range(Unsuppressed(vs, d))
<1> DEFINE piece(i) == IF Silenced(vs[i], d) THEN <<>> ELSE <<vs[i]>>
           pieces == [i \in DOMAIN vs |-> piece(i)]
<1>1. DOMAIN vs = 1..Len(vs) /\ Len(vs) \in Nat /\ \A i \in DOMAIN vs : vs[i] \in Violation
  BY LenProperties, ElementOfSeq
<1>2. \A i \in DOMAIN vs : /\ piece(i) \in Seq(Violation)
                           /\ ~Silenced(vs[i], d) => piece(i) = <<vs[i]>>
  BY <1>1
<1>3. /\ pieces \in Seq(Seq(Violation)) /\ Len(pieces) = Len(vs)
      /\ \A i \in DOMAIN vs : pieces[i] = piece(i)
  <2> HIDE DEF piece
  <2> QED BY <1>1, <1>2
<1>4. Unsuppressed(vs, d) = FlattenSeq(pieces)
  BY DEF Unsuppressed
<1> HIDE DEF piece, pieces
<1>5. /\ FlattenSeq(pieces) \in Seq(Violation)
      /\ Range(FlattenSeq(pieces)) = UNION {Range(pieces[i]) : i \in 1..Len(pieces)}
  BY <1>3, Flattened
<1>6. ASSUME NEW v \in Range(vs), ~Silenced(v, d) PROVE v \in Range(FlattenSeq(pieces))
  <2>1. PICK i \in DOMAIN vs : vs[i] = v
    BY DEF Range
  <2>2. pieces[i] = <<v>>
    BY <1>2, <1>3, <1>6, <2>1
  <2>3. v \in Range(pieces[i])
    BY <2>2 DEF Range
  <2> QED
    BY <1>1, <1>3, <1>5, <2>1, <2>3
<1> QED
  BY <1>4, <1>5, <1>6

(* In a plain run that is done, what was found is what was in the file,    *)
(* and what is left of it is what the report is about.                     *)
LEMMA SingleDone ==
    ASSUME Typed, Accounted, Told, Validated, Mode = "single"
    PROVE  LET found == Verdict(before[args.inputs[1]]) IN
           /\ found \in Seq(Violation)
           /\ violations = Unsuppressed(found, before)
           /\ violations \in Seq(Violation)
           /\ results[1].found = found
<1>1. /\ args \in CommandLine
      /\ args.inputs[1] \in Files
      /\ results[1] = Result(before[args.inputs[1]])
      /\ ~Fails(before[args.inputs[1]])
  BY DoneResults DEF Done
<1>2. results[1].found = Verdict(before[args.inputs[1]])
  BY <1>1 DEF Result
<1>3. Verdict(before[args.inputs[1]]) \in Seq(Violation)
  BY <1>1, VerdictType
<1>4. violations = Unsuppressed(results[1].found, before)
  BY DEF Told, Filtered, Done
<1> QED
  BY <1>2, <1>3, <1>4, UnsuppressedHas

(* The exit code 0 of a plain run can be relied on: what should have made  *)
(* it fail is named by an entry of the ignore file.                        *)
THEOREM ZeroIsExcused == Spec => []ZeroMeansExcused
<1>1. Typed /\ Accounted /\ Told => ZeroMeansExcused
  <2> SUFFICES ASSUME Typed, Accounted, Told, Validated, status = 0, Mode = "single",
                      NEW v \in Range(Verdict(before[args.inputs[1]])), Counts(v)
               PROVE  \E s \in Suppressions(before) : /\ s.rule_id # NoName   => s.rule_id = v.rule_id
                                                      /\ s.stream_id # NoName => s.stream_id = v.stream_id
    BY DEF ZeroMeansExcused
  <2> DEFINE found == Verdict(before[args.inputs[1]])
  <2>1. /\ found \in Seq(Violation) /\ violations \in Seq(Violation)
        /\ violations = Unsuppressed(found, before)
    BY SingleDone
  <2> HIDE DEF found
  <2>2. ~Rejected
    BY DEF Told, Coded
  <2>3. Silenced(v, before)
    <3> SUFFICES ASSUME ~Silenced(v, before) PROVE FALSE
      OBVIOUS
    <3>1. v \in Range(violations)
      BY <2>1, UnsuppressedHas DEF found
    <3>2. CASE v.severity = "ERROR"
      BY <2>1, <2>2, <3>1, <3>2, CountsSeverity DEF Rejected
    <3>3. CASE args.fail_on_warn /\ v.severity = "WARN"
      BY <2>1, <2>2, <3>1, <3>3, CountsSeverity DEF Rejected
    <3> QED
      BY <3>2, <3>3 DEF Counts
  <2> QED
    BY <2>3 DEF Silenced, Silences
<1> QED
  BY <1>1, UntouchedInit, UntouchedStep, AccountedInit, AccountedStep, TypedInit, TypedStep,
     ToldInit, ToldStep, PTL DEF Spec

(* What a run other than a batch has written is the document of its        *)
(* format.                                                                 *)
LEMMA WrittenIs ==
    ASSUME Told, Validated, args.output \notin Unwritable \/ Mode # "batch"
    PROVE  Written.kind = "report" /\ Written.format = Format /\ Written.doc = Document
<1>1. Written \in Reports
  BY DEF Told, InPlace, Done
<1> QED
  BY <1>1, ReportIs

(* A plain run reports in one of three formats, a diff in its own.         *)
LEMMA FormatIs ==
    ASSUME args \in CommandLine
    PROVE  /\ Mode \in {"single", "diff", "batch"}
           /\ Mode = "single" => Format \in {"text", "json", "sarif"}
           /\ Mode = "diff" => Format = "diff"
           /\ Mode = "batch" => Format = "batch"
  BY DEF Mode, Format, CommandLine

(* The level of a SARIF result tells its severity.                         *)
LEMMA LevelIs ==
    ASSUME NEW v \in Violation
    PROVE  /\ SarifResult(v).level = "error" <=> v.severity = "ERROR"
           /\ SarifResult(v).level = "warning" <=> v.severity = "WARN"
<1>1. v.severity \in {"ERROR", "WARN", "INFO"}
  BY DEF Violation
<1>2. SarifResult(v).level = severity_to_level[v.severity]
  BY DEF SarifResult
<1> QED
  BY <1>1, <1>2 DEF severity_to_level

(* Exit code and report of a plain run or a diff tell the same story.      *)
THEOREM StoriesAgree == Spec => []ReportAgrees
<1>1. Typed /\ Accounted /\ Told => ReportAgrees
  <2> SUFFICES ASSUME Typed, Accounted, Told, Validated, Mode # "batch"
               PROVE  Written.kind = "report" /\ (status = 1 <=> ShowsSomething(Written))
    BY DEF ReportAgrees
  <2>1. Written.kind = "report" /\ Written.format = Format /\ Written.doc = Document
    BY WrittenIs
  <2>2. status = 1 <=> Rejected
    BY DEF Told, Coded
  <2>3. args \in CommandLine
    BY DEF Accounted
  <2>4. CASE Mode = "diff"
    <3>1. Written.format = "diff"
          /\ Written.doc = DiffReport(results[1].found, results[2].found)
      BY <2>1, <2>3, <2>4, FormatIs DEF Document
    <3>2. Written.doc.new = Shown(results[2].found, Introduced)
      BY <3>1 DEF DiffReport, Introduced
    <3>3. Written.doc.new # {} <=> Introduced # {}
      BY <3>2 DEF Shown
    <3> QED
      BY <2>1, <2>2, <2>4, <3>1, <3>3 DEF ShowsSomething, Rejected
  <2>5. CASE Mode = "single"
    <3>1. violations \in Seq(Violation)
      BY <2>5, SingleDone
    <3>2. Rejected <=> \/ Count(violations, "ERROR") > 0
                       \/ args.fail_on_warn /\ Count(violations, "WARN") > 0
      BY <2>5 DEF Rejected
    <3>3. CASE Format = "text"
      <4>1. /\ Written.doc.errors = Count(violations, "ERROR")
            /\ Written.doc.warnings = Count(violations, "WARN")
        BY <2>1, <3>3 DEF Document, TextReport
      <4> QED
        BY <2>1, <2>2, <3>2, <3>3, <4>1 DEF ShowsSomething
    <3>4. CASE Format = "json"
      <4>1. /\ Written.doc.errors = Count(violations, "ERROR")
            /\ Written.doc.warnings = Count(violations, "WARN")
        BY <2>1, <3>4 DEF Document, JsonReport
      <4> QED
        BY <2>1, <2>2, <3>2, <3>4, <4>1 DEF ShowsSomething
    <3>5. CASE Format = "sarif"
      <4>1. Written.doc = SarifReport(violations)
        BY <2>1, <3>5 DEF Document
      <4>2. Range(Written.doc.results) = {SarifResult(v) : v \in Range(violations)}
        BY <4>1 DEF SarifReport, Range
      <4>3. \A v \in Range(violations) : v \in Violation
        BY <3>1, RangeOfSeq
      <4>4. /\ (\E x \in Range(Written.doc.results) : x.level = "error")
                 <=> \E v \in Range(violations) : v.severity = "ERROR"
            /\ (\E x \in Range(Written.doc.results) : x.level = "warning")
                 <=> \E v \in Range(violations) : v.severity = "WARN"
        BY <4>2, <4>3, LevelIs
      <4>5. /\ (\E v \in Range(violations) : v.severity = "ERROR") <=> Count(violations, "ERROR") > 0
            /\ (\E v \in Range(violations) : v.severity = "WARN") <=> Count(violations, "WARN") > 0
        BY <3>1, CountsSeverity
      <4>6. ShowsSomething(Written) <=>
              \E x \in Range(Written.doc.results) :
                 x.level = "error" \/ (args.fail_on_warn /\ x.level = "warning")
        BY <2>1, <3>5 DEF ShowsSomething
      <4> QED
        BY <2>1, <2>2, <3>2, <4>4, <4>5, <4>6
    <3> QED
      BY <2>3, <2>5, <3>3, <3>4, <3>5, FormatIs
  <2> QED
    BY <2>3, <2>4, <2>5, FormatIs
<1> QED
  BY <1>1, UntouchedInit, UntouchedStep, AccountedInit, AccountedStep, TypedInit, TypedStep,
     ToldInit, ToldStep, PTL DEF Spec

(* The report of a plain run is complete: it has, in order, all that was   *)
(* found in the file as it was when the program started and that the       *)
(* ignore file leaves.                                                     *)
THEOREM TellsAll == Spec => []ReportTellsAll
<1>1. Typed /\ Accounted /\ Told => ReportTellsAll
  <2> SUFFICES ASSUME Typed, Accounted, Told, Validated, Mode = "single" PROVE ReportTellsAll
    BY DEF ReportTellsAll
  <2> DEFINE found == Unsuppressed(Verdict(before[args.inputs[1]]), before)
             doc   == Written.doc
  <2>1. found \in Seq(Violation) /\ found = violations
    BY SingleDone
  <2>2. Written.format = Format /\ doc = Document
    BY WrittenIs
  <2>3. Format \in {"text", "json", "sarif"}
    BY FormatIs DEF Accounted
  <2>4. ASSUME Format = "json" PROVE JsonRead(doc) = found
    <3>1. doc = JsonReport(violations)
      BY <2>2, <2>4 DEF Document
    <3> QED
      BY <2>1, <3>1, JsonReadsBack
  <2>5. ASSUME Format = "sarif"
        PROVE  /\ SarifInOrder(doc)
               /\ [i \in DOMAIN doc.results |-> doc.results[i].message] = [i \in DOMAIN found |-> found[i].what]
    <3>1. doc = SarifReport(violations)
      BY <2>2, <2>5 DEF Document
    <3>2. DOMAIN doc.results = DOMAIN found
          /\ \A i \in DOMAIN found : doc.results[i].message = found[i].what
      BY <2>1, <3>1 DEF SarifReport, SarifResult
    <3> QED
      BY <2>1, <3>1, <3>2, SarifOrdered
  <2>6. ASSUME Format = "text"
        PROVE  /\ [i \in DOMAIN doc.lines |-> doc.lines[i].message] = [i \in DOMAIN found |-> found[i].what]
               /\ doc.errors + doc.warnings + doc.infos = Len(found)
    <3>1. doc = TextReport(violations)
      BY <2>2, <2>6 DEF Document
    <3>2. DOMAIN doc.lines = DOMAIN found
          /\ \A i \in DOMAIN found : doc.lines[i].message = found[i].what
      BY <2>1, <3>1 DEF TextReport
    <3>3. doc.errors + doc.warnings + doc.infos = Len(found)
      BY <2>1, <3>1, SeveritiesAddUp DEF TextReport
    <3> QED
      BY <3>2, <3>3
  <2> HIDE DEF found, doc
  <2> QED
    BY <2>2, <2>3, <2>4, <2>5, <2>6 DEF ReportTellsAll, found, doc
<1> QED
  BY <1>1, UntouchedInit, UntouchedStep, AccountedInit, AccountedStep, TypedInit, TypedStep,
     ToldInit, ToldStep, PTL DEF Spec

(* In a vector without an error none is counted.                           *)
LEMMA NoErrors ==
    ASSUME NEW vs \in Seq(Violation)
    PROVE  /\ Count(vs, "ERROR") > 0 <=> Errors(vs) # {}
           /\ Count(vs, "ERROR") = 0 <=> Errors(vs) = {}
<1>1. /\ Count(vs, "ERROR") \in Nat
      /\ Count(vs, "ERROR") > 0 <=> \E v \in Range(vs) : v.severity = "ERROR"
  BY CountsSeverity
<1> QED
  BY <1>1 DEF Errors

(* In a batch that is done, the k-th result is that of the k-th file.      *)
LEMMA BatchDone ==
    ASSUME Typed, Accounted, Validated, Mode = "batch"
    PROVE  /\ args.inputs \in Seq(Files)
           /\ results \in Seq(Range(results))
           /\ Len(results) = Len(args.inputs)
           /\ \A k \in 1..Len(args.inputs) :
                LET c == before[args.inputs[k]] IN
                /\ results[k] = Result(c)
                /\ results[k].failed <=> Fails(c)
                /\ ~Fails(c) => /\ results[k].found \in Seq(Violation)
                                /\ results[k].found = Verdict(c)
<1>1. /\ args \in CommandLine
      /\ Inputs = args.inputs /\ Len(results) = Len(args.inputs)
      /\ results \in Seq(Range(results))
      /\ \A k \in 1..Len(args.inputs) : /\ args.inputs[k] \in Files
                                        /\ results[k] = Result(before[args.inputs[k]])
  BY DoneResults DEF Done
<1>2. ASSUME NEW k \in 1..Len(args.inputs)
      PROVE  LET c == before[args.inputs[k]] IN
             /\ results[k] = Result(c)
             /\ results[k].failed <=> Fails(c)
             /\ ~Fails(c) => /\ results[k].found \in Seq(Violation)
                             /\ results[k].found = Verdict(c)
  <2> DEFINE c == before[args.inputs[k]]
  <2>1. results[k] = Result(c) /\ args.inputs[k] \in Files
    BY <1>1
  <2>2. ~Fails(c) => Verdict(c) \in Seq(Violation)
    BY <1>1, <2>1, VerdictType
  <2> HIDE DEF c
  <2>3. Result(c).failed <=> Fails(c)
    BY DEF Result
  <2>4. ~Fails(c) => Result(c).found = Verdict(c)
    BY DEF Result
  <2> QED
    BY <2>1, <2>2, <2>3, <2>4 DEF c
<1> QED
  BY <1>1, <1>2 DEF CommandLine

(* A batch that exits 0 could read every file and has found an error in    *)
(* none; its report has an entry for each, in order.                       *)
THEOREM BatchAccounts == Spec => []BatchAccountsForAll
<1>1. Typed /\ Accounted /\ Told => BatchAccountsForAll
  <2> SUFFICES ASSUME Typed, Accounted, Told, Validated, Mode = "batch" PROVE BatchAccountsForAll
    BY DEF BatchAccountsForAll
  <2> DEFINE c(k) == before[args.inputs[k]]
  <2>1. /\ args.inputs \in Seq(Files)
        /\ results \in Seq(Range(results))
        /\ Len(results) = Len(args.inputs)
        /\ \A k \in 1..Len(args.inputs) :
             /\ results[k].failed <=> Fails(c(k))
             /\ ~Fails(c(k)) => /\ results[k].found \in Seq(Violation)
                                /\ results[k].found = Verdict(c(k))
    BY BatchDone
  <2> HIDE DEF c
  <2>2. /\ Len(args.inputs) \in Nat
        /\ DOMAIN args.inputs = 1..Len(args.inputs)
        /\ DOMAIN results = 1..Len(args.inputs)
    BY <2>1, LenProperties
  <2>3. ASSUME NEW k \in 1..Len(args.inputs)
        PROVE  results[k].failed \/ Count(results[k].found, "ERROR") > 0
                 <=> ~(~Fails(c(k)) /\ Errors(Verdict(c(k))) = {})
    BY <2>1, NoErrors
  <2>4. WithErrors > 0 <=> \E k \in 1..Len(args.inputs) :
                              ~(~Fails(c(k)) /\ Errors(Verdict(c(k))) = {})
    <3> DEFINE W == {k \in DOMAIN results : results[k].failed \/ Count(results[k].found, "ERROR") > 0}
    <3>1. IsFiniteSet(DOMAIN results)
      BY <2>2, FS_Interval
    <3>2. IsFiniteSet(W)
      BY <3>1, FS_Subset
    <3>3. Cardinality(W) \in Nat /\ (Cardinality(W) = 0 <=> W = {})
      BY <3>2, FS_CardinalityType, FS_EmptySet
    <3>4. W # {} <=> \E k \in 1..Len(args.inputs) : ~(~Fails(c(k)) /\ Errors(Verdict(c(k))) = {})
      BY <2>2, <2>3
    <3>5. WithErrors = Cardinality(W)
      BY DEF WithErrors
    <3> HIDE DEF W
    <3> QED
      BY <3>3, <3>4, <3>5
  <2>5. status = 0 <=> \A k \in DOMAIN args.inputs : ~Fails(c(k)) /\ Errors(Verdict(c(k))) = {}
    <3>1. status \in {0, 1} /\ (status = 1 <=> WithErrors > 0)
      BY DEF Told, Coded, Validated, Rejected
    <3> QED
      BY <2>2, <2>4, <3>1
  <2>6. ASSUME args.output \notin Unwritable
        PROVE  /\ Len(Written.doc.topologies) = Len(args.inputs)
               /\ \A k \in 1..Len(args.inputs) :
                    Written.doc.topologies[k] = BatchEntry(args.inputs[k], results[k])
    <3>1. Format = "batch"
      BY FormatIs DEF Accounted
    <3>2. Written.doc = Document
      BY <2>6, WrittenIs
    <3>3. Written.doc.topologies = [k \in DOMAIN results |-> BatchEntry(args.inputs[k], results[k])]
      BY <3>1, <3>2 DEF Document
    <3> QED
      BY <2>2, <3>3
  <2>7. ASSUME NEW k \in 1..Len(args.inputs)
        PROVE  LET x == BatchEntry(args.inputs[k], results[k]) IN
               /\ x.file = args.inputs[k]
               /\ Fails(c(k)) <=> "error" \in DOMAIN x
               /\ ~Fails(c(k)) => (x.errors = 0 <=> Errors(Verdict(c(k))) = {})
    <3>1. CASE Fails(c(k))
      <4>1. BatchEntry(args.inputs[k], results[k]) = [file |-> args.inputs[k], error |-> results[k].why]
        BY <2>1, <3>1 DEF BatchEntry
      <4> QED
        BY <3>1, <4>1
    <3>2. CASE ~Fails(c(k))
      <4>1. /\ BatchEntry(args.inputs[k], results[k]) =
                 [file |-> args.inputs[k], errors |-> Count(results[k].found, "ERROR"),
                  warnings |-> Count(results[k].found, "WARN")]
            /\ results[k].found \in Seq(Violation) /\ results[k].found = Verdict(c(k))
        BY <2>1, <3>2 DEF BatchEntry
      <4>2. Count(results[k].found, "ERROR") = 0 <=> Errors(Verdict(c(k))) = {}
        BY <4>1, NoErrors
      <4> QED
        BY <3>2, <4>1, <4>2
    <3> QED
      BY <3>1, <3>2
  <2> QED
    BY <2>2, <2>5, <2>6, <2>7 DEF BatchAccountsForAll, c
<1> QED
  BY <1>1, UntouchedInit, UntouchedStep, AccountedInit, AccountedStep, TypedInit, TypedStep,
     ToldInit, ToldStep, PTL DEF Spec
=============================================================================
