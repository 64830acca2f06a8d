SPECIFICATION Spec
CONSTANTS
    s1 = s1
    s2 = s2
    Signer <- MCSigner
    Proposal = {p1}
    Request = {r1, r2}
    HighValue = {p1}
    Authorities <- MCAuthorities
    Configured <- MCConfigured
    Readers <- MCReaders
    None = None
INVARIANTS LateCallsChangeNothing LiveQuorum
SYMMETRY MCSymmetry
