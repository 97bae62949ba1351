\* A restart through the API.
CONSTANT MaxRequests = 1
SPECIFICATION SpecAnswering
PROPERTY RestartComes
