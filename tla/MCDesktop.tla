----------------------------- MODULE MCDesktop -----------------------------
EXTENDS Desktop

(* A listed driver of a vendor, of which there are two copies, with a      *)
(* signature of its own and in a catalog that does not verify; and a       *)
(* component of Windows, signed through its catalog only, with a localised *)
(* version.                                                                *)
MCFile ==
  [vendor |-> [catalog |-> "invalid", embedded |-> "valid", signer |-> "vendor",
     declared |-> <<"US Unicode">>,
     version |-> [k \in Blocks |-> IF k = "US Unicode" THEN "1" ELSE ""],
     company |-> [k \in Blocks |-> IF k = "US multilingual" THEN "corsair" ELSE ""],
     size |-> 2],
   windows |-> [catalog |-> "valid", embedded |-> "none", signer |-> "microsoft windows",
     declared |-> <<"German">>,
     version |-> [k \in Blocks |-> IF k = "German" THEN "2" ELSE ""],
     company |-> [k \in Blocks |-> ""],
     size |-> 1]]

MCWords == [copy1 |-> {"graphics", "rgb"}, copy2 |-> {}]
MCCompanyWords == [t \in Texts |-> IF t = "corsair" THEN {"rgb"} ELSE {}]
MCInstalled == [copy1 |-> "vendor", copy2 |-> "vendor"]

MCFallback == <<"US Unicode", "US multilingual">>
MCCategories == <<"graphics", "rgb">>
MCFeeds == {{"vendor", "malformed"}, {}}
=============================================================================
