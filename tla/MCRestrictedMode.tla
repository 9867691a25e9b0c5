--------------------------- MODULE MCRestrictedMode ---------------------------
(* Two policies that disagree on every question; the threads are alike.    *)
EXTENDS RestrictedMode, TLC

MCFeatures == {"Plugins", "Screenshots"}
MCPolicies ==
    { [disabledFeatures |-> MCFeatures, allowedPlugins |-> {}, watermark |-> "mark",
       bestEffortScreenProtect |-> TRUE],
      [disabledFeatures |-> {"Plugins"}, allowedPlugins |-> {"hashes"}, watermark |-> "",
       bestEffortScreenProtect |-> FALSE] }

Symmetry == Permutations(Threads)
===============================================================================
