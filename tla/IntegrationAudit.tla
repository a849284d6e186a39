--------------------------- MODULE IntegrationAudit ---------------------------
(***************************************************************************)
(* run_audit (src/core/integration_audit.py): the static checks between    *)
(* the coder and the judge, and the coder who acts on their findings.      *)
(*                                                                         *)
(* A file is what the checks read of it: functions defined and called,     *)
(* modules imported, names loaded, names bound with the form that binds    *)
(* them, except blocks, and the lines left as stubs, some of which name a  *)
(* function ("TODO: implement load(x)").  A specification is what the      *)
(* regular expressions take from its text; the findings a coder is sent    *)
(* are put in front of it, and the next audit reads them as part of it.    *)
(***************************************************************************)
EXTENDS Integers, FiniteSets

CONSTANTS
  Program,    \* the set of programs a coder starts from, each a set of files
  Specs,      \* specifications
  Builtins,   \* names in the table `builtins`, and one-letter names
  Stdlib,     \* modules in STDLIB_MODULES
  Extends,    \* pairs <<d, n>> of names: d contains n
  StubNames,  \* names with a stub word in them, such as todo_list
  MaxPerCategory,  \* findings of a category the coder is shown (10 in the code)
  MaxRounds   \* bound: audits

Stub == [line : STRING, asks : STRING]    \* asks: the function it names, "none" for none
Handler == [line : STRING, types : STRING, recovers : BOOLEAN, pass : BOOLEAN]
File ==
  [name : STRING, python : BOOLEAN, parses : BOOLEAN, test : BOOLEAN, stubs : SUBSET Stub,
   defs : SUBSET STRING, calls : SUBSET STRING, imports : SUBSET STRING, loads : SUBSET STRING,
   binds : SUBSET (STRING \X STRING), handlers : SUBSET Handler]
Specification ==
  [required : SUBSET STRING, define : SUBSET STRING, call : SUBSET STRING,
   only : {"any", "stdlib", "listed"}, listed : SUBSET STRING]

ASSUME AuditAssumption ==
  /\ Program \subseteq SUBSET File /\ Specs \subseteq Specification
  /\ MaxPerCategory \in Nat \ {0} /\ MaxRounds \in Nat
  /\ \A x \in Extends : x[2] \in StubNames => x[1] \in StubNames

VARIABLES
  program,   \* the files the coder wrote
  demands,   \* [required, define, call : sets of names, only : "any", "stdlib" or "listed",
             \*  listed : set of modules]
  findings,  \* of the last audit, those shown
  audits,    \* audits so far
  turn,      \* "audit", "fix" or "passed"
  hidden     \* history: some audit found more than it showed

auditVars == <<program, demands, findings, audits, turn, hidden>>

AuditInit ==
  /\ program \in Program
  /\ demands \in Specs
  /\ findings = {} /\ audits = 0 /\ turn = "audit" /\ hidden = FALSE

\* Files that do not parse, or are not Python, have no tree to look at.
Trees == {f \in program : f.python /\ f.parses}
Defined == UNION {f.defs : f \in Trees}
Called == UNION {f.calls : f \in Trees}

Error(category, file, name) ==
  [severity |-> "error", category |-> category, file |-> file, name |-> name]
Warning(category, file, name) ==
  [severity |-> "warning", category |-> category, file |-> file, name |-> name]

-----------------------------------------------------------------------------
\* Of several definitions of a name, one is reported.
Home(n) == CHOOSE f \in Trees : n \in f.defs
CheckCallGraph ==
  {Error("dead_function", Home(n).name, n) : n \in (Defined \cap demands.required) \ Called}

\* The patterns are matched against the text, whatever it is: a line with
\* an identifier such as todo_list in it is a stub, too.
Names(f) == f.defs \cup f.calls \cup f.imports \cup f.loads \cup {b[1] : b \in f.binds}
StubLines(f) == {s.line : s \in f.stubs} \cup (Names(f) \cap StubNames)
CheckStubs == UNION {{Error("stub", f.name, l) : l \in StubLines(f)} : f \in program}

Forbidden ==
  {m \in (UNION {f.imports : f \in Trees}) \ Stdlib :
     \/ demands.only = "stdlib"
     \/ demands.only = "listed" /\ demands.listed # {} /\ m \notin demands.listed}

\* Mutant of BindingForms: an assignment does not bind.
BindingFormsNoAssign == {"def", "import", "for", "except", "parameter"}

\* The forms of binding _extract_undefined_names looks at.  Names bound by
\* with, by a comprehension, a lambda or an annotated assignment are not
\* among them.
BindingForms == {"def", "assign", "import", "for", "except", "parameter"}
Undefined(f) ==
  {n \in f.loads \ Builtins : \A b \in f.binds : b[1] = n => b[2] \notin BindingForms}

BadImports ==
  UNION {{Error("bad_import", f.name, m) : m \in f.imports \cap Forbidden} :
           f \in {t \in Trees : ~t.test}}
MissingImports ==
  UNION {{Error("missing_import", f.name, n) : n \in Undefined(f)} : f \in Trees}
CheckImports == BadImports \cup MissingImports

\* An except block for specific exceptions is never reported.
Swallows(h) == h.types \in {"bare", "broad"} /\ ~h.recovers
CheckErrorPaths ==
  UNION {{IF h.pass THEN Error("swallowed_error", f.name, h.line)
                    ELSE Warning("swallowed_error", f.name, h.line) :
            h \in {g \in f.handlers : Swallows(g)}} : f \in Trees}

Undone == {m \in demands.define : \A d \in Defined : d # m /\ <<d, m>> \notin Extends}
CheckRequirements ==
  {Error("requirement_missing", "none", n) : n \in Undone}
  \cup {Error("requirement_dead", Home(n).name, n) : n \in (demands.call \cap Defined) \ Called}

AllFindings ==
  CheckCallGraph \cup CheckStubs \cup CheckImports \cup CheckErrorPaths \cup CheckRequirements

OnlyErrors(F) == {x \in F : x.severity = "error"}

\* What format_findings_for_coder keeps: of each category no more than so many.
Categories ==
  {"dead_function", "stub", "bad_import", "missing_import", "swallowed_error",
   "requirement_missing", "requirement_dead"}
OfCategory(F, category) == {x \in F : x.category = category}
Capped(F) ==
  {G \in SUBSET F : \A c \in Categories :
     IF Cardinality(OfCategory(F, c)) <= MaxPerCategory
     THEN OfCategory(G, c) = OfCategory(F, c)
     ELSE Cardinality(OfCategory(G, c)) = MaxPerCategory}

\* A finding quotes the stub line it is about.  The other words the findings
\* add to the specification name no function of a program.
Asked(F) ==
  UNION {{s.asks : s \in {t \in f.stubs : Error("stub", f.name, t.line) \in F}} : f \in program}
    \ {"none"}

NoErrors ==
  /\ turn = "audit" /\ audits < MaxRounds
  /\ OnlyErrors(AllFindings) = {}
  /\ turn' = "passed" /\ audits' = audits + 1
  /\ UNCHANGED <<program, demands, findings, hidden>>

ErrorsFound ==
  /\ turn = "audit" /\ audits < MaxRounds
  /\ OnlyErrors(AllFindings) # {}
  /\ \E F \in Capped(AllFindings) :
       /\ findings' = F
       /\ hidden' = (hidden \/ F # AllFindings)
       /\ demands' = [demands EXCEPT !.required = @ \cup Asked(F), !.define = @ \cup Asked(F)]
  /\ turn' = "fix" /\ audits' = audits + 1
  /\ UNCHANGED program

Audit == NoErrors \/ ErrorsFound

-----------------------------------------------------------------------------
(* A coder who does what the fix instructions say, in one revision.  A     *)
(* name is not replaced for looking like a stub.                           *)

ToldFile(f, category) == {x.name : x \in {y \in findings : y.category = category /\ y.file = f.name}}
ToldOfAll(category) == {x.name : x \in {y \in findings : y.category = category}}

\* "Add 'import n' at the top, or define 'n' before use": one of the two.
Bound(f, imported) ==
  {<<n, IF n \in imported THEN "import" ELSE "assign">> : n \in ToldFile(f, "missing_import")}

\* The first Python file takes the functions and calls asked of no file.
Revised(f, first, imported) ==
  [f EXCEPT
     !.stubs = {s \in @ : s.line \notin ToldFile(f, "stub")},
     !.calls = @ \cup ToldFile(f, "dead_function")
                 \cup IF f = first THEN ToldOfAll("requirement_dead") ELSE {},
     !.defs = @ \cup IF f = first THEN ToldOfAll("requirement_missing") ELSE {},
     !.imports = (@ \ ToldFile(f, "bad_import")) \cup (ToldFile(f, "missing_import") \cap imported),
     !.binds = {b \in @ : ~(b[2] = "import" /\ b[1] \in ToldFile(f, "bad_import"))}
                 \cup Bound(f, imported),
     !.handlers = {IF h.line \in ToldFile(f, "swallowed_error")
                   THEN [h EXCEPT !.recovers = TRUE, !.pass = FALSE] ELSE h : h \in @}]

Fix ==
  /\ turn = "fix"
  /\ \E imported \in SUBSET (ToldOfAll("missing_import") \cap Stdlib), first \in Trees :
       program' = {Revised(f, first, imported) : f \in program}
  /\ turn' = "audit"
  /\ UNCHANGED <<demands, findings, audits, hidden>>

AuditsOver == (turn = "passed" \/ audits = MaxRounds) /\ UNCHANGED auditVars

AuditNext == Audit \/ Fix \/ AuditsOver

AuditSpec == AuditInit /\ [][AuditNext]_auditVars

-----------------------------------------------------------------------------
FileNames == {f.name : f \in program} \cup {"none"}

(* The type of every variable, and what a finding may point at.            *)
AuditTypeOK ==
  /\ turn \in {"audit", "fix", "passed"} /\ audits \in 0..MaxRounds
  /\ \A x \in findings : x.severity \in {"error", "warning"} /\ x.file \in FileNames
  /\ turn = "fix" => findings # {}

(* What the checks ask for can be had together, with one exception.  A     *)
(* coder who is shown all findings, does what they say, and defines a name *)
(* it is told is missing unless it is a module of the standard library, is *)
(* through at the fourth audit: the first repair may turn a quoted stub    *)
(* into a requirement and break names by dropping an import, the second    *)
(* may add functions nobody calls, the third leaves nothing.  The          *)
(* exception are names with a stub word in them: a specification that      *)
(* demands one is never passed.                                            *)
FixesSuffice ==
  /\ (audits >= 4 /\ ~hidden /\ \A f \in program : Names(f) \cap StubNames = {})
       => turn = "passed"
  /\ demands.define \cap StubNames # {} => turn # "passed"
=============================================================================
