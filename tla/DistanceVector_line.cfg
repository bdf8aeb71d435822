SPECIFICATION FairSpec
CONSTANTS
    r1 = r1
    r2 = r2
    r3 = r3
    r4 = r4
    stub = stub
    s12 = s12
    s23 = s23
    s24 = s24
    s34 = s34
    Router = {r1, r2, r3}
    Subnet = {stub, s12, s23}
    Host = {r1, r2, r3, zero}
    Zero = zero
    Unspecified = Unspecified
    MetricModulus = 6
    Attached <- mc_Line
    Destination = {stub}
    Distance <- mc_Distance
INVARIANTS TypeOK MetricNeverBelowDistance SettledIsShortest
PROPERTIES Convergence ExchangeKeepsDescent ExchangeKeepsShortest TablesServed
