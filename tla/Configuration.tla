---------------------------- MODULE Configuration ----------------------------
(***************************************************************************)
(* From the flags, the files and the environment to the test that runs:    *)
(* the mapping of a test (pkg/config), its templates and modules           *)
(* (pkg/test), the modifier that the flags ask for (pkg/modifier), the     *)
(* defaults and the validation (api), and the tuning sets of its phases    *)
(* (pkg/tuningset).                                                        *)
(***************************************************************************)
EXTENDS Integers, Sequences, SequencesExt

CONSTANTS
    Modules,        \* path of a module file -> its steps, for the files that exist
    ConfigSteps,    \* what the steps of a test config may be
    Numbers,        \* namespace.number and automanagedNamespaces
    TuningSets,     \* the tuning sets of a test config
    Overwrites,     \* --overwrite-test-config Namespace.Number: <<>> or <<value>>
    Skips           \* values of --skip-steps

VARIABLE st

\* One override, CL2_P, is looked at: its text in the global file, in the file of
\* the test and in the environment, "" where it is not given.
Texts == {"", "7", "x"}

Init ==
    \E global, local, env \in Texts, steps \in ConfigSteps, number, auto \in Numbers,
       sets \in TuningSets,
       overwrite \in Overwrites, malformed \in BOOLEAN, skip \in Skips :
        st = [pc |-> "context", global |-> global, local |-> local, env |-> env,
              overwrite |-> overwrite, skip |-> skip,
              malformed |-> malformed,   \* another overwrite is not a pair, names no field or does not parse
              config |-> [steps |-> steps, number |-> number, auto |-> auto, tuningSets |-> sets],
              mapping |-> "", validated |-> <<>>, result |-> "none"]

-----------------------------------------------------------------------------
\* Numbers of a YAML file decode to float64, those of the environment to int64.
decodeInto(text) == IF text = "7" THEN "float64" ELSE text
unpackStringValue(text) == IF text = "7" THEN "int64" ELSE text

\* The file of the test supersedes the global one.
LoadTestOverrides == decodeInto(IF st.local # "" THEN st.local ELSE st.global)

\* Whether both give the key, differently.
MergeConflict(a, b) == a # "" /\ b # "" /\ a # b

GetMapping ==
    LET files == LoadTestOverrides
        env == unpackStringValue(st.env)
    IN  /\ st.pc = "context"
        /\ st' = IF MergeConflict(files, env) THEN [st EXCEPT !.pc = "failed"]
                 ELSE [st EXCEPT !.pc = "compile", !.mapping = IF files = "" THEN env ELSE files]

-----------------------------------------------------------------------------
modifySkipSteps(c) == [c EXCEPT !.steps = SelectSeq(@, LAMBDA s : s.name \notin st.skip)]

modifyOverwrite(c) == IF st.overwrite = <<>> THEN c ELSE [c EXCEPT !.number = st.overwrite[1]]

ChangeTest(c) == modifyOverwrite(modifySkipSteps(c))

\* A module is rendered with the mapping of the test and its own parameters, not
\* with those of the module it is in; value is what CL2_P is in the rendered file.
loadModule(step) ==
    [i \in DOMAIN Modules[step.path] |->
        [Modules[step.path][i] EXCEPT !.value = IF step.params # "" THEN step.params ELSE st.mapping]]

\* The steps of a module take its place; a file that is not there is an error.
Missing == [name |-> "", path |-> "", kind |-> "missing"]

RECURSIVE flattenModuleSteps(_)
flattenModuleSteps(steps) ==
    IF steps = <<>> THEN <<>>
    ELSE LET rest == flattenModuleSteps(Tail(steps))
             step == Head(steps)
         IN  IF step.path = "" THEN <<step>> \o rest
             ELSE IF step.path \notin DOMAIN Modules THEN <<Missing>>
             ELSE flattenModuleSteps(loadModule(step)) \o rest

SetDefaults(c) ==
    LET number == IF c.number = 0 THEN 1 ELSE c.number
    IN  [c EXCEPT !.number = IF number = 1 /\ c.auto > 1 THEN c.auto ELSE number]

\* Exactly one type, with positive parameters.
validateTuningSet(ts) == Cardinality(ts.types) = 1 /\ ts.positive

\* Faulty variant: the name of the tuning set is not looked up.
validateTuningSetInPhase_Any(step, sets) == TRUE

validateTuningSetInPhase(step, sets) ==
    step.kind = "phase" /\ step.tuningSet # "" => \E ts \in sets : ts.name = step.tuningSet

\* A step has phases or measurements, not both and not neither; what else a phase,
\* an object, a measurement or a dependency must have is the flag sound.
validateStep(step) == step.kind \in {"phase", "measurement"} /\ step.sound

Validate(c) ==
    /\ c.auto >= 0 /\ c.number > 0
    /\ \A ts \in c.tuningSets : validateTuningSet(ts)
    /\ c.steps # <<>>
    /\ \A i \in DOMAIN c.steps :
           validateStep(c.steps[i]) /\ validateTuningSetInPhase(c.steps[i], c.tuningSets)

CompileTestConfig ==
    /\ st.pc = "compile"
    /\ LET rendered == [st.config EXCEPT !.steps = [i \in DOMAIN @ |-> [@[i] EXCEPT !.value = st.mapping]]]
           changed == ChangeTest(rendered)
           flat == flattenModuleSteps(changed.steps)
           c == SetDefaults([changed EXCEPT !.steps = flat])
       IN  st' = IF st.malformed \/ Contains(flat, Missing) THEN [st EXCEPT !.pc = "failed"]
                 ELSE IF ~Validate(c) THEN [st EXCEPT !.pc = "failed"]
                 ELSE [st EXCEPT !.pc = "run", !.config = c, !.validated = c]

-----------------------------------------------------------------------------
\* Whether a phase gets a tuning set: one of its name, of a known type.
CreateTuningSet(name) == \E ts \in st.config.tuningSets : ts.name = name /\ ts.types # {}

\* The modifier is applied once more, to the config that was validated.
RunTest ==
    /\ st.pc = "run"
    /\ st' = [st EXCEPT !.pc = "done", !.config = ChangeTest(@),
                        !.result = IF \E i \in DOMAIN ChangeTest(st.config).steps :
                                        LET s == ChangeTest(st.config).steps[i]
                                        IN  s.kind = "phase" /\ ~CreateTuningSet(s.tuningSet)
                                   THEN "error" ELSE "ok"]

Next == GetMapping \/ CompileTestConfig \/ RunTest

-----------------------------------------------------------------------------
\* What the environment and the files say of the key, where they agree on it.
Given == {decodeInto(IF st.local # "" THEN st.local ELSE st.global), unpackStringValue(st.env)} \ {""}

\* What a step written in a file may see: the parameters of a reference to it, or
\* the mapping if there is a reference without, or if it is the config itself.
References(file) ==
    {s \in UNION {Range(steps) : steps \in ConfigSteps \cup {Modules[path] : path \in DOMAIN Modules}} :
        s.path = file}
Seen(file) ==
    LET params == {s.params : s \in References(file)}
    IN  (params \ {""}) \cup IF file = "" \/ "" \in params THEN {st.mapping} ELSE {}

\* What runs is what was validated, with two exceptions that the second
\* application of the modifier makes: the steps of modules are skipped by name
\* only then, which may leave no step at all, and an overwrite of the number of
\* namespaces undoes its default.  A test whose config was valid finds a tuning
\* set for each of its phases, unless a phase names none.  No test runs with an
\* override that the environment contradicts, and the steps of a module see the
\* parameters of its reference or the mapping of the test, nothing else.
RunsWhatWasValidated ==
    st.pc = "done" =>
        /\ st.config.steps = SelectSeq(st.validated.steps, LAMBDA s : s.name \notin st.skip)
        /\ st.config.number # st.validated.number => st.overwrite \in {<<0>>, <<1>>}
        /\ st.config.tuningSets = st.validated.tuningSets
        /\ st.result = "error" =>
               \E i \in DOMAIN st.config.steps :
                   st.config.steps[i].kind = "phase" /\ st.config.steps[i].tuningSet = ""
        /\ Cardinality(Given) <= 1
        /\ \A i \in DOMAIN st.config.steps :
               st.config.steps[i].value \in Seen(st.config.steps[i].file)
=============================================================================
