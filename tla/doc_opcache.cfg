SPECIFICATION Spec
CONSTANTS
  Libraries <- MCLibraries
  OpenSSL = "openssl"
  Curl = "curl"
  Binaries = {"php", "phpize"}
  Modules = {"extra.so"}
  MaxBuilds = 2
  MaxUpdates = 2
INVARIANT OpcacheInstalled
CHECK_DEADLOCK FALSE
