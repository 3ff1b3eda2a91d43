SPECIFICATION Spec
CONSTANTS
    Clients = {c1, c2}
    Backends = {b1, b2}
    None = None
    s = s  u = u  t1 = t1  t2 = t2  x = x  h1 = h1  h2 = h2
    Names = {s, u}
    Texts = {t1, t2, x}
    Hashes = {h1, h2}
    HashOf <- Distinct
    CanonicalSQL <- CanonicalDistinct
    TextsFor <- TwoNames
    Queries = {t1}
    Shapes <- AsyncpgShapes
    Faults = {"refused", "lost", "timeout"}
    MaxNamed = 1
SYMMETRY Symmetry
INVARIANTS TypeOK DeployedExact StatementFound OwnText
