SPECIFICATION FairSpec
CONSTANTS
    c1 = c1  jan = jan  sed = sed  h1 = h1  h2 = h2  f1 = f1  f2 = f2
    None = None
    Client <- OneClient
    Janitor = jan
    Seeder = sed
    Booter = sed
    Hash <- OneHash
    Private <- NoneOf
    Folder <- OneFolder
    Name <- OneName
    DataPath <- AsItIs
INVARIANTS
    TypeOK
    WipesClosed
PROPERTIES
    Protected
    Reclaimed
