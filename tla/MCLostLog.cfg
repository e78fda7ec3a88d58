CONSTANTS
    Invocations <- MCInvocations
    Paths = {"p", "l"}
    NumberOf <- MCNumberOf
    Modulus = 32
    Programs <- MCPrograms
    Faults = {"open", "write", "close"}
SPECIFICATION Spec
INVARIANT ReportedMeansWritten
