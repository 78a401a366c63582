--------------------------- MODULE MCCatalogHeal ---------------------------
(* Two wrong checksums of one match, its true one, and one path and title. *)
EXTENDS CatalogHeal

CONSTANTS old1, old2, new1, path1, title1

MCNames == {old1, old2, new1}
MCTwoNames == {old1, new1}
MCContents == {new1}
MCPaths == {path1}
MCTitles == {title1}

=============================================================================
