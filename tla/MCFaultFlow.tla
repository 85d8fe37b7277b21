----------------------------- MODULE MCFaultFlow -----------------------------
EXTENDS FaultFlow, TLC

\* Two critical rules on one metric, which raise one code: the second finds
\* the fault the first has raised, or is about to raise.
MCRules == {"r1", "r2"}
MCCodeOf == "r1" :> "F1-gen" @@ "r2" :> "F1-gen"
MCCodes == {"F1-gen"}

=============================================================================
