------------------------------ MODULE SatsuMain ------------------------------
(***************************************************************************)
(* The way of a file through the stages, as csatsu's main and the tools of *)
(* gsatsu's panel (p_lex ... p_exec, p_execmodule) take it: what each      *)
(* stage is given, where it stops, and what every exit releases.           *)
(***************************************************************************)
EXTENDS SatsuModules

CONSTANTS
  Hosts,      \* of "csatsu" and "gsatsu"
  PathLists,  \* the directories the user gives
  MaxPaths    \* A_MAXPATHS

ASSUME HostsAssumption == Hosts \subseteq {"csatsu", "gsatsu"}
ASSUME PathsAssumption == PathLists \subseteq Seq(Dirs)

VARIABLES
  host,
  target      \* the stage the user asks for

vars == <<host, target, moduleVars, batchVars>>
Here == UNCHANGED <<host, target, batchVars>>

Targets == {"lex", "parse", "import", "sema", "exec"}

File == <<"file", 0>>          \* a_args.infp
Copies == <<"paths", 0>>       \* gsatsu's copies of the directories
System == <<"sysfns", 0>>
OnHeap == <<"module", 0>>      \* gsatsu's module, for the thread

Init ==
  /\ BatchInit
  /\ at = "start" /\ failed = "" /\ paths = <<>> /\ imports = <<>> /\ next = 1 /\ files = <<>>
  /\ nmods = 0 /\ modcap = 0 /\ live = {} /\ fault = FALSE
  /\ host \in Hosts /\ target = "exec"

\* a_proc: help and errors end the program at once.
Arguments ==
  /\ at = "start" /\ host = "csatsu"
  /\ \/ at' = "exit" /\ UNCHANGED <<target, paths, live>>
     \/ \E ps \in PathLists :
          /\ Len(ps) <= MaxPaths
          /\ at' = "read" /\ target' \in Targets /\ paths' = ps /\ live' = live \union {File}
  /\ UNCHANGED <<host, batchVars, failed, imports, next, files, nmods, modcap, fault>>

\* A button of the panel; its handler opens the file.
Button ==
  /\ at = "start" /\ host = "gsatsu"
  /\ target' \in Targets
  /\ \/ at' = "read" /\ live' = live \union {File}
     \/ at' = "exit" /\ UNCHANGED live
  /\ UNCHANGED <<host, batchVars, failed, paths, imports, next, files, nmods, modcap, fault>>

\* csatsu leaves the file open.
Closed == IF host = "gsatsu" THEN {File} ELSE {}

ReadMain ==
  /\ at = "read"
  /\ \/ /\ at' = "lex" /\ files' = <<Main>> /\ Touch({File}, Closed, {Data(1)})
        /\ UNCHANGED <<failed, paths, imports, next, nmods, modcap>>
     \/ Fail("read") /\ Touch({File}, Closed, {Error})
  /\ Here

LexMain ==
  /\ at = "lex"
  /\ \/ Goto("parse") /\ Touch({Data(1)}, {}, {Lex(1)})
     \/ Fail("lex") /\ Touch({Data(1)}, {}, {Error})
  /\ Here

ParseMain ==
  /\ at = "parse" /\ target # "lex"
  /\ \/ /\ at' = "create" /\ imports' \in Imports /\ Touch({Lex(1)}, {}, {Ast(1)})
        /\ UNCHANGED <<failed, paths, next, files, nmods, modcap>>
     \/ Fail("parse") /\ Touch({Lex(1)}, {}, {Error})
  /\ Here

\* gsatsu makes copies of the directories in its text fields.
GivePaths ==
  /\ at = "created"
  /\ \/ host = "csatsu" /\ UNCHANGED <<paths, live>>
     \/ host = "gsatsu" /\ paths' \in PathLists /\ live' = live \union {Copies}
  /\ at' = "import"
  /\ UNCHANGED <<failed, imports, next, files, nmods, modcap, fault>> /\ Here

\* They go as soon as ls_resolveimports returns.
Given == IF host = "gsatsu" THEN {Copies} ELSE {}

SemaMain ==
  /\ at = "resolved" /\ target # "import"
  /\ \/ Goto("exec") /\ Touch(Owned, Given, {})
     \/ Fail("sema") /\ Touch(Owned, Given, {Error})
  /\ Here

\* gsatsu moves the module to the heap, for a thread that may not start.
Heaped == IF host = "gsatsu" THEN {OnHeap} ELSE {}

StartExec ==
  /\ at = "exec" /\ target = "exec"
  /\ \/ Goto("run") /\ Touch({}, {}, {System} \union Heaped)
     \/ host = "gsatsu" /\ Fail("thread") /\ Touch({}, {}, Heaped)
  /\ Here

ExecMain ==
  /\ at = "run"
  /\ \/ Goto("ran") /\ Touch(Owned \union {System}, {}, {})
     \/ Fail("exec") /\ Touch(Owned \union {System}, {}, {Error})
  /\ Here

-----------------------------------------------------------------------------
(* Where the program stops: what it looks at last, and what it releases. *)

Exit == at' = "exit" /\ UNCHANGED <<failed, paths, imports, next, files, nmods, modcap>> /\ Here

\* The stage that was asked for is done.
Reached ==
  /\ \/ at = "parse" /\ target = "lex" /\ Touch({Lex(1)}, {Lex(1), Data(1)}, {})
     \/ at = "create" /\ target = "parse" /\ Touch({}, {Ast(1), Lex(1), Data(1)}, {})
     \/ at = "resolved" /\ target = "import" /\ DestroyModule({}, Given)
     \/ at = "exec" /\ target = "sema" /\ DestroyModule({}, {})
     \/ at = "ran" /\ DestroyModule({}, {System} \union Heaped)
  /\ Exit

BeforeTable == [read |-> {}, lex |-> {Data(1)}, parse |-> {Data(1), Lex(1)}]

\* Mutant: the text that was read is released, although it is the table's.
AfterTableTwice ==
  [import |-> Given \union {Data(1)}, sema |-> {}, exec |-> {System} \union Heaped,
   thread |-> Heaped]
AfterTable ==
  [import |-> Given, sema |-> {}, exec |-> {System} \union Heaped, thread |-> Heaped]
Message == IF failed = "thread" THEN {} ELSE {Error}

\* The part of the text with the error is shown, and the message.
Report ==
  /\ at = "failed"
  /\ \/ failed \in DOMAIN BeforeTable /\ Touch({}, BeforeTable[failed] \union Message, {})
     \/ failed \in DOMAIN AfterTable /\ DestroyModule({}, AfterTable[failed] \union Message)
  /\ Exit

Stopped == at = "exit" /\ UNCHANGED vars

Step ==
  \/ Arguments \/ Button \/ ReadMain \/ LexMain \/ ParseMain \/ GivePaths
  \/ (at = "create" => target # "parse") /\ ModuleStep /\ UNCHANGED <<host, target>>
  \/ SemaMain \/ StartExec \/ ExecMain \/ Reached \/ Report

Next == Step \/ Stopped

Spec == Init /\ [][Next]_vars

-----------------------------------------------------------------------------
(* Properties. *)

\* Whatever stage fails, and however many modules there are by then, no block is used or
\* released that is not allocated.
NothingMisused == ~fault

\* On every way out all blocks have been released; only csatsu's file stays open.
AllReleased == at = "exit" => live \subseteq (IF host = "csatsu" THEN {File} ELSE {})
=============================================================================
