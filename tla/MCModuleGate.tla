---------------------------- MODULE MCModuleGate ----------------------------
(* Values of the constants of ModuleGate for TLC.                          *)
EXTENDS ModuleGate

\* Two changes and whoever asks meanwhile, the sweep and the gate of two modules,
\* changes of several modules that wait for each other, failures.
MCMixes == {{"activate", "toggle_off", "einvoicing"}, {"lapse", "production"},
            {"onboard", "toggle_on", "inventory"}, {"lapse", "bootstrap"},
            {"bootstrap", "compliance"},
            {"deactivate", "inventory", "fault"}, {"activate", "compliance", "fault"}}
=============================================================================
