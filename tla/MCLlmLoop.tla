------------------------------ MODULE MCLlmLoop ------------------------------
EXTENDS LlmLoop
BothEntries == {"app", "driver"}
AllModes == {"auto", "native", "manual"}
=============================================================================
