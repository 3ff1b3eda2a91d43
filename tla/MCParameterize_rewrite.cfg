SPECIFICATION Spec
CONSTANTS
    Statements <- Sample
    TextOf <- Text
    LiteralsOf <- StatementLiterals
    HasParam <- ContainsParam
    CountRange = 65536
    None = None
INVARIANTS
    TypeOK
    SameStatement
    CanonicalForm
