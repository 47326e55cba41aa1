\* One run: to a run, another run of the bundle is what the maker is, someone
\* who changes the files it was given copies of.
SPECIFICATION Spec
CONSTANTS
    r1 = r1
    Runs = {r1}
    Files = {"research/notes.md", "research/auth.json", "design.md", "output/SKILL.md"}
    Research = {"research/notes.md", "research/auth.json"}
    Secret = {"research/auth.json"}
    Kinds = {"eval", "researching", "drafting"}
    Noise = TRUE
    MaxWrites = 2
    MaxEdits = 1
    MaxFaults = 2
INVARIANTS
    TypeOK
    RunsAreTrue
PROPERTIES
    CopybackIsOwn
    PromptsEnd
CHECK_DEADLOCK FALSE
