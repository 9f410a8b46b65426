---------------------------- MODULE SatsuModules ----------------------------
(***************************************************************************)
(* The table of modules and what the first one imports (ls_createmodule,   *)
(* ls_resolveimports, ls_pushmodule, ls_destroymodule).  The table is an   *)
(* allocation batch of six arrays.  Texts, token lists, trees and messages *)
(* are what they are to their owners: blocks that are allocated, used and  *)
(* released.                                                               *)
(***************************************************************************)
EXTENDS SatsuBatch, FiniteSets, FiniteSetsExt

CONSTANTS
  Files,    \* regular files
  Main,     \* the one that is run
  Inode,    \* their inode numbers, by which ls_fileid tells them apart
  Dirs,     \* directories of modules
  In,       \* In[d]: for each name d has a file for, that file
  Names,    \* the names in import statements
  Imports   \* the imports the file that is run may have, in order

ASSUME TableAssumption == Len(Sizes) = 6
ASSUME FilesAssumption ==
  /\ Main \in Files /\ Imports \subseteq Seq(Names)
  /\ \A d \in Dirs : DOMAIN In[d] \subseteq Names /\ \A n \in DOMAIN In[d] : In[d][n] \in Files
  /\ \A f \in Files : Inode[f] \in Nat \ {0}
  \* They are on one file system.
  /\ \A f, g \in Files : Inode[f] = Inode[g] => f = g

VARIABLES
  at,       \* where the program is
  failed,   \* the stage that has failed
  paths,    \* the import directories it was given
  imports,  \* the imports of the first module
  next,     \* the import ls_resolveimports is at
  files,    \* history: the files that were read, in order
  nmods,    \* m->nmods and m->modcap
  modcap,
  live,     \* the blocks that are allocated
  fault     \* history: a block was used or released that was not allocated

moduleVars == <<at, failed, paths, imports, next, files, nmods, modcap, live, fault>>

-----------------------------------------------------------------------------
(* Blocks: of the n-th file that is read, and others. *)

Data(n) == <<"data", n>>
Lex(n) == <<"lex", n>>
Ast(n) == <<"ast", n>>
Name(n) == <<"name", n>>
Table == <<"table", 0>>
Error == <<"error", 0>>

Touch(used, freed, made) ==
  /\ fault' = (fault \/ ~(used \union freed \subseteq live))
  /\ live' = (live \ freed) \union made

Goto(where) ==
  at' = where /\ UNCHANGED <<failed, paths, imports, next, files, nmods, modcap>>
\* A stage returns an error; its message is made in the step that gives up.
Fail(stage) ==
  /\ at' = "failed" /\ failed' = stage
  /\ UNCHANGED <<paths, imports, next, files, nmods, modcap>>

-----------------------------------------------------------------------------
(* The table, in which a word tells what it is a part of. *)

Fields == <<"names", "ids", "data", "lens", "lexes", "asts">>
Field(f) == CHOOSE k \in Arrays : Fields[k] = f

Id(f) == <<"id", Inode[f]>>
Element(k, n) ==
  CASE Fields[k] = "names" -> Name(n)
    [] Fields[k] = "ids" -> Id(files[n])
    [] Fields[k] = "data" -> Data(n)
    [] Fields[k] = "lens" -> <<"len", n>>
    [] Fields[k] = "lexes" -> Lex(n)
    [] Fields[k] = "asts" -> Ast(n)

\* Where the j-th element of an array begins, and its words.
Begin(k, j) == ptr[k] + (j - 1) * Sizes[k]
Extent(k, j) == Begin(k, j)..(Begin(k, j) + Sizes[k] - 1)

\* The block with a module's six elements in row j.
Stored(j) ==
  [a \in DOMAIN mem |->
     IF \E k \in Arrays : a \in Extent(k, j)
     THEN LET k == CHOOSE l \in Arrays : a \in Extent(l, j)
          IN [of |-> Element(k, Len(files)), word |-> a - Begin(k, j)]
     ELSE mem[a]]

Garbled == <<"garbled", 0>>
Read(f, j) ==
  LET k == Field(f)
      first == mem[Begin(k, j)]
  IN IF \A a \in Extent(k, j) : mem[a] = [of |-> first.of, word |-> a - Begin(k, j)]
     THEN first.of ELSE Garbled

Rows == 1..nmods
Owned == {Read(f, j) : f \in {"names", "data", "lexes", "asts"}, j \in Rows}

\* ls_destroymodule and what is released next to it; used is looked at before.
DestroyModule(used, others) ==
  LET freed == Owned \union others \union {Table}
  IN /\ fault' = (fault \/ ~(used \union freed \subseteq live)
                     \/ Cardinality(Owned) < 4 * nmods
                     \/ Owned \intersect others # {})
     /\ live' = live \ freed

-----------------------------------------------------------------------------
(* ls_createmodule and ls_pushmodule *)

Create ==
  /\ at = "create" /\ Alloc(1)
  /\ at' = "push" /\ nmods' = 0 /\ modcap' = 1
  /\ Touch({}, {}, {Table, Name(1)})
  /\ UNCHANGED <<failed, paths, imports, next, files>>

\* Mutant: the table grows one module too late.
FullLate == nmods > modcap
Full == nmods >= modcap

\* Mutant: the capacity is doubled before the sizes are noted.
PushGrowLate ==
  /\ at = "push" /\ phase = "idle" /\ Full
  /\ Grow(2 * modcap, 4 * modcap) /\ modcap' = 2 * modcap
  /\ UNCHANGED <<at, failed, paths, imports, next, files, nmods, live, fault>>

PushGrow ==
  /\ at = "push" /\ phase = "idle" /\ Full
  /\ Grow(modcap, 2 * modcap) /\ modcap' = 2 * modcap
  /\ UNCHANGED <<at, failed, paths, imports, next, files, nmods, live, fault>>

Push ==
  /\ at = "push" /\ (phase = "done" \/ (phase = "idle" /\ ~Full))
  /\ phase' = "idle" /\ mem' = Stored(nmods + 1)
  /\ nmods' = nmods + 1
  /\ at' = IF nmods = 0 THEN "created" ELSE "import"
  /\ UNCHANGED <<oldn, newn, oldoff, newoff, oldsize, newsize, i, ptr, was>>
  /\ UNCHANGED <<failed, paths, imports, next, files, modcap, live, fault>>

-----------------------------------------------------------------------------
(* ls_resolveimports *)

\* The file an import leads to: that of the first directory that has one.
Found(n) == {p \in DOMAIN paths : imports[n] \in DOMAIN In[paths[p]]}
FileOf(n) == In[paths[Min(Found(n))]][imports[n]]

\* Mutant: a module is only compared with the one that was run.
IsPresentAtFirst(f) == Read("ids", 1) = Id(f)
IsPresent(f) == \E j \in Rows : Read("ids", j) = Id(f)

Skip == 1

Looked == {Table} \union {Read("lexes", 1), Read("asts", 1), Read("data", 1)}

NextImport ==
  /\ at = "import" /\ phase = "idle" /\ next <= Len(imports)
  /\ IF Found(next) = {}
     THEN Fail("import") /\ Touch(Looked, {}, {Error})
     ELSE IF IsPresent(FileOf(next))
     THEN /\ next' = next + Skip /\ Touch(Looked, {}, {})
          /\ UNCHANGED <<at, failed, paths, imports, files, nmods, modcap>>
     ELSE Goto("open") /\ Touch(Looked, {}, {})
  /\ UNCHANGED batchVars

\* fopen, ls_readfile and fclose.
ReadImport ==
  /\ at = "open"
  /\ \/ /\ at' = "lex import" /\ files' = Append(files, FileOf(next))
        /\ Touch({}, {}, {Data(Len(files) + 1)})
        /\ UNCHANGED <<failed, paths, imports, next, nmods, modcap>>
     \/ Fail("import") /\ Touch({}, {}, {Error})
  /\ UNCHANGED batchVars

\* On an error a new message is made of the old one.
LexImport ==
  LET n == Len(files)
  IN /\ at = "lex import"
     /\ \/ Goto("parse import") /\ Touch({Data(n)}, {}, {Lex(n)})
        \/ Fail("import") /\ Touch({}, {Data(n)}, {Error})
     /\ UNCHANGED batchVars

\* Mutant: what the lexer made is forgotten.
ParseImportLeaks ==
  LET n == Len(files)
  IN /\ at = "parse import"
     /\ \/ /\ at' = "push" /\ next' = next + 1 /\ Touch({Lex(n)}, {}, {Ast(n), Name(n)})
           /\ UNCHANGED <<failed, paths, imports, files, nmods, modcap>>
        \/ Fail("import") /\ Touch({Lex(n)}, {Data(n)}, {Error})
     /\ UNCHANGED batchVars

ParseImport ==
  LET n == Len(files)
  IN /\ at = "parse import"
     /\ \/ /\ at' = "push" /\ next' = next + 1 /\ Touch({Lex(n)}, {}, {Ast(n), Name(n)})
           /\ UNCHANGED <<failed, paths, imports, files, nmods, modcap>>
        \/ Fail("import") /\ Touch({Lex(n)}, {Lex(n), Data(n)}, {Error})
     /\ UNCHANGED batchVars

Resolved ==
  /\ at = "import" /\ phase = "idle" /\ next > Len(imports)
  /\ Goto("resolved") /\ Touch(Looked, {}, {})
  /\ UNCHANGED batchVars

ModuleStep ==
  \/ Create \/ PushGrow \/ Push
  \/ NextImport \/ ReadImport \/ LexImport \/ ParseImport \/ Resolved
  \/ at = "push" /\ BatchStep /\ UNCHANGED moduleVars

-----------------------------------------------------------------------------
(* Properties. *)

\* Between two pushes every row of the table still holds what was pushed there, however
\* often its arrays were moved.
TableTrue ==
  phase = "idle" =>
    \A j \in Rows :
      /\ Read("names", j) = Name(j) /\ Read("ids", j) = Id(files[j])
      /\ Read("data", j) = Data(j) /\ Read("lens", j) = <<"len", j>>
      /\ Read("lexes", j) = Lex(j) /\ Read("asts", j) = Ast(j)

\* When the imports are resolved, the modules are the file that is run and what it
\* imports, each once, an import being the file of the first directory that has one.
\* The imports of an imported file are not among them.
ImportsPresent ==
  at = "resolved" =>
    LET Meant(n) ==
          {In[paths[p]][imports[n]] :
             p \in {q \in DOMAIN paths :
                     /\ imports[n] \in DOMAIN In[paths[q]]
                     /\ \A r \in 1..(q - 1) : imports[n] \notin DOMAIN In[paths[r]]}}
    IN /\ {files[j] : j \in Rows} = {Main} \union UNION {Meant(n) : n \in DOMAIN imports}
       /\ \A n \in DOMAIN imports : Meant(n) # {}
       /\ \A j, l \in Rows : Read("ids", j) = Read("ids", l) => j = l
=============================================================================
