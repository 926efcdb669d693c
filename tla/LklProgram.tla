------------------------------ MODULE LklProgram ------------------------------
(***************************************************************************)
(* The program from its command line to its end: LklBoot brings LKL up,    *)
(* and while it serves its threads make the calls of LklCalls.             *)
(***************************************************************************)
EXTENDS LklBoot, LklCalls

vars == <<bootVars, callVars>>

Init == BootInit /\ CallInit

\* The calls of a connection, as long as there is a kernel to call.
Serve == stage = "serving" /\ kernel = "up" /\ Calls

Next ==
    \/ Boot /\ UNCHANGED callVars
    \/ Serve /\ UNCHANGED bootVars
    \/ HostCode /\ stage \notin Ended /\ UNCHANGED bootVars

Spec == Init /\ [][Next]_vars
-----------------------------------------------------------------------------
\* A server without its network has said so: the only sign there is, since main() goes
\* on after a failed init_lkl() (init_lkl(), main()).  It was asked for neither help
\* nor version, and had all its arguments.
ServesOrSays ==
    stage = "serving" =>
        /\ given.complete /\ ~given.help /\ ~given.version
        /\ \/ kernel = "up" /\ network = {"added", "index", "addressed", "up"}
           \/ "failure" \in said

\* No call tells the error of an earlier one, or of other code of the thread: success
\* is told without an error, and failure with its own number; if lkl_set_errno() does not
\* know that one, with none, or with what LKL's host layer left in errno during this
\* very call.  sockatmark() and available(), which do not clear errno, are the exception
\* for such a number (error_wrapper(), clear_last_error()).
ErrorIsOwn ==
    LET number == -last.answer
    IN  /\ last.n >= 0 => last.ec = 0
        /\ number \in Known =>
               last.ec = IF number = ENOTTY /\ last.op \in {"sockatmark", "available"}
                         THEN ENOTSOCK ELSE number
        /\ number > 0 /\ number \notin Known /\ last.op \notin {"sockatmark", "available"} =>
               last.ec \in {0} \cup LayerErrors

\* An option that is read with success is what the user last set with success, though
\* the kernel keeps another size (getsockopt(), setsockopt()).
OptionsReadBack ==
    last.n = 0 /\ open =>
        /\ last.op = "getAborted" => last.value = IF asked.aborted THEN 1 ELSE 0
        /\ last.op = "getBuffer" /\ asked.size # 0 => last.value = asked.size
=============================================================================
