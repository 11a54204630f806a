SPECIFICATION Spec
CONSTANTS
    Authority = authority
    Others = {acs, core}
INVARIANTS
    MirrorsAgree
