\* A WireGuard location whose streamSettings the service adds back.
SPECIFICATION Spec
CONSTANTS
  Unset = Unset
  MaxDepth = 6
  MaxRedirects = 3
  MaxExcludedApps = 1
  Extras <- MCExtras
  LowerOf <- MCLowerOf
  Urls <- MCUrls
  Bodies <- MCBodies
  Selections <- MCSelections
  Interfaces <- MCInterfaces
  Ports <- MCPorts
INVARIANT
  WireguardHasNoStream
