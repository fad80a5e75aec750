\* Bounds: 5 coefficients, 3 runs and 3 sizes, codes of at most 4 bits, a
\* lookahead of 2, bytes of 3 bits, the smallest correction buffer.
CONSTANTS
    NIBBLE = 3
    MAX_LEN = 4
    MAX_CLEN = 9
    HUFF_LOOKAHEAD = 2
    DCTSIZE2 = 5
    MAX_COEF_BITS = 1
    JOCTET_BITS = 3
    RST0 = 1
    NUM_RST = 2
    EOI = 3
    MAX_CORR_BITS = 5
    MIN_GET_BITS = 4
    MAX_AH_AL = 2
    MAX_COMPS = 4
    FIRST_BAND = 2
    Cases <- AllCases
SPECIFICATION Spec
INVARIANTS ScanAgrees CleanDecode PendingFits StaysInBlock TablesAgree
