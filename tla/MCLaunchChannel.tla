-------------------------- MODULE MCLaunchChannel --------------------------
(***************************************************************************)
(* Instances of LaunchChannel for TLC: one module whose functions share    *)
(* the staged code, a ring of four or six entries (two or three launches   *)
(* outstanding), and sets of environments.                                 *)
(***************************************************************************)
EXTENDS LaunchChannel, TLC

CONSTANTS f1, f2, m1

MCModuleOf == [f \in Function |-> m1]

\* Functions are interchangeable: they differ in nothing but their name.
Symmetry == Permutations(Function)

\* The environment in which exactly the flags in s are set.
With(s) == [v \in EnvFlags |-> v \in s]

\* Every setting that changes which path a launch takes or what it submits.
PathEnvs == {With({}), With({"qmd"}), With({"qmd", "wfi"}), With({"text"}), With({"noop"}),
             With({"rmOnly"}), With({"pbOff"}), With({"failUnsup"}), With({"stageOff"}),
             With({"strict"}), With({"bellOff", "wait"}),
             With({"qmd", "strict"}), With({"qmd", "strict", "wfi"}),
             With({"qmd", "strict", "stageOff"})}
\* Every staged launch waits.
WaitEnvs == {With({"wait"}), With({"wait", "qmd", "text"})}
LiveEnvs == {With({}), With({"qmd", "wfi"}), With({"wait"})}
DefaultEnvs  == {With({})}
=============================================================================
