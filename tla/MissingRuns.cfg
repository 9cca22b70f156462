\* One search client, over three runs of which a request may name one; a request
\* for more is refused.
SPECIFICATION MissingSpec
CONSTANTS
    Runs = {r1, r2, r3}
    Clients = {c1}
    MaxRunsPerRequest = 1
PROPERTY MissingRunsArrive
