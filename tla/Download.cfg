\* Two files, every method, every primary site, one interruption, one distclean.
SPECIFICATION Spec
CONSTANTS
    Files = 2
    Methods = {"http", "scp", "git", "sparse", "svn", "hg", "bzr", "file"}
    Primaries = {"none", "http", "scp"}
    MaxCleans = 1
INVARIANTS
    StampsTrue
PROPERTIES
    KeptFiles
    Obtained
