CONSTANTS
  Hashes = {h1, h2}
  Infos <- MCInfos
  TabNames = {"general", "files"}
SPECIFICATION Spec
SYMMETRY HashSymmetry
INVARIANTS TypeOK Coherent LayoutMatches
PROPERTIES MenuActsOnItsTorrent
