SPECIFICATION Spec
CONSTANTS
    a = a
    b = b
    c = c
    lan = lan
    remote = remote
    Self = a
    RouterId = {b, c}
    Subnet = {lan, remote}
    Host = {a, b, c, zero}
    Zero = zero
    Unspecified = Unspecified
    None = None
    MetricModulus = 8
    Listener = {l1, l2}
    Interfaces <- mc_Interfaces
    LocalNetworks <- mc_Interfaces
    Hellos <- mc_NoHello
    Updates <- mc_UpdatesBC
SYMMETRY ListenerSymmetry
INVARIANTS OneRoutePerSubnet KernelWithinTable
PROPERTIES RouteOnlyImproves TableApplied TableServed TrackedUntilRemoved
