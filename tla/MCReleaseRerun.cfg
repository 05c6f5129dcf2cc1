CONSTANTS
    v1 = v1  beta = beta  pep_beta = pep_beta  r1 = r1  r2 = r2
    Releases = {v1, beta}
    PythonVersions = {v1, beta, pep_beta}
    Pep440 <- MCPep440
    Revisions = {r1, r2}
    Sources <- MCSources
    None = None
    Torn = Torn
    MaxLocked = 1
SPECIFICATION Spec
INVARIANT RerunUpdatesAssets
